---- MODULE Spec2Model ----
(***************************************************************************)
(* State-machine model of the plan engine (HierarchicalPlanner), the       *)
(* response validator (ResponseValidator), the reasoning engine            *)
(* (ReasoningEngine), the tool availability verifier                       *)
(* (ToolAvailabilityVerifier) and the agent system (EnhancedAgentSystem)   *)
(* that drives them.                                                       *)
(*                                                                         *)
(* The specifications share the variables and the actions below; each      *)
(* drives one part of the program and leaves the others as constructed:    *)
(*   Spec          the plan store: tools are registered and removed, plans *)
(*                 are created, validated and deleted;                     *)
(*   SpecValidate  validatePlan applied to every plan of a bounded family  *)
(*                 of hand-built plans (it is a public method that takes   *)
(*                 any plan object);                                       *)
(*   SpecExec      executePlan run step by step, while tools come and go,  *)
(*                 over the plans createPlan builds and over every plan of *)
(*                 a bounded family of stored plans (createPlan and        *)
(*                 getPlan hand out the stored object itself, so its steps *)
(*                 can be edited by the caller before executePlan reads    *)
(*                 them);                                                  *)
(* the others are introduced where they are defined.                       *)
(***************************************************************************)
EXTENDS Integers, Sequences, FiniteSets, TLC

VARIABLES
    registry,          \* names of the tools registered in the ToolRegistry
    activePlans,       \* HierarchicalPlanner.activePlans: plan id -> plan | NoPlan
    executionResults,  \* HierarchicalPlanner.executionResults: plan id -> results | NoResults
    nextPlanId,        \* number of ids generatePlanId has handed out so far, plus one
    held,              \* what the caller built itself: a plan object, the
                       \* arguments of a validateResponse call, or the options
                       \* for a decision point; NoPlan if none
    pc,                \* position of the executePlan call: "idle" | "loop" | "store"
    execPlanId,        \* planId argument of the running executePlan
    sortedSteps,       \* executePlan's local sortedSteps
    cursor,            \* index in sortedSteps of the next loop iteration
    results,           \* executePlan's local results
    invoked,           \* history: ids of the steps executeStep was called for, in order
    lastCall,          \* outcome of the last completed API call
    validationRules,   \* ResponseValidator.validationRules, in order
    activeChains,      \* ReasoningEngine.activeChains: chain id -> chain | NoChain
    nextChainId,       \* number of ids generateChainId has handed out so far, plus one
    sessionObjects,    \* the session objects startSession has built: session id -> session | NoSession
    activeSessions,    \* keys of EnhancedAgentSystem.activeSessions (its values are the objects)
    sessionHistory,    \* EnhancedAgentSystem.sessionHistory: ids of the objects, in order
    nextSessionId,     \* number of ids generateSessionId has handed out so far, plus one
    msgCall,           \* the processMessage call that is waiting for a response, or NoMsgCall
    verificationCache, \* ToolAvailabilityVerifier.verificationCache: cache key -> result | NoVerification
    now                \* Date.now(), in milliseconds since the construction

vars == << registry, activePlans, executionResults, nextPlanId, held, pc,
           execPlanId, sortedSteps, cursor, results, invoked, lastCall,
           validationRules, activeChains, nextChainId, sessionObjects,
           activeSessions, sessionHistory, nextSessionId, msgCall,
           verificationCache, now >>

execVars == << pc, execPlanId, sortedSteps, cursor, results, invoked >>

\* the fields of the planner
plannerVars == << activePlans, executionResults, nextPlanId, held >>

\* the fields of the response validator and of the reasoning engine
validatorVars == << validationRules >>
reasoningVars == << activeChains, nextChainId >>

\* the fields of the agent system and of the tool availability verifier
sessionVars == << sessionObjects, activeSessions, sessionHistory, nextSessionId, msgCall >>
verifierVars == << verificationCache, now >>
agentVars == << sessionVars, verifierVars >>

----------------------------------------------------------------------------
(* Bounds and value domains *)

\* at most this many generatePlanId calls in a behaviour
MaxPlans == 2

\* tool names a registry may hold; the three analysis tools and one more
Tools == {"edit", "grep", "ls", "read_file"}

\* the tools that are registered and removed during a behaviour; the others
\* stay registered
Removable == {"edit", "grep"}

\* step ids of the hand-built plans, and the order they are listed in
StepIds == {"A", "B", "C"}
StepOrder == << "A", "B", "C" >>

\* longest hand-built plan whose ids and dependencies are arbitrary
MaxSteps == 3

PlanIds == 1..MaxPlans

NoPlan == [id |-> 0]
NoResults == [present |-> FALSE, list |-> << >>]
NoCall == [op |-> "none"]

----------------------------------------------------------------------------
(* Sequence helpers *)

Range(s) == {s[i] : i \in 1..Len(s)}

\* Array.prototype.slice(0, n)
SliceFirst(s, n) == IF Len(s) <= n THEN s ELSE SubSeq(s, 1, n)

\* Array.prototype.slice(0, -1)
SliceDropLast(s) == IF Len(s) = 0 THEN << >> ELSE SubSeq(s, 1, Len(s) - 1)

\* Array.prototype.find(s => s.id === stepId): index of the first match, 0 if none
RECURSIVE FindFrom(_, _, _)
FindFrom(steps, stepId, i) ==
    IF i > Len(steps) THEN 0
    ELSE IF steps[i].id = stepId THEN i
    ELSE FindFrom(steps, stepId, i + 1)

FindIndex(steps, stepId) == FindFrom(steps, stepId, 1)

\* Array.prototype.map(s => s.id)
RECURSIVE MapIds(_)
MapIds(steps) ==
    IF steps = << >> THEN << >>
    ELSE << Head(steps).id >> \o MapIds(Tail(steps))

----------------------------------------------------------------------------
(* The tool registry (external collaborator) *)

\* the order in which getAllTools lists the registered tools
ToolOrder == << "edit", "grep", "ls", "read_file" >>

RECURSIVE FilterIn(_, _)
FilterIn(s, set) ==
    IF s = << >> THEN << >>
    ELSE IF Head(s) \in set THEN << Head(s) >> \o FilterIn(Tail(s), set)
    ELSE FilterIn(Tail(s), set)

\* toolRegistry.getAllTools().map(t => t.name)
GetAllToolNames(reg) == FilterIn(ToolOrder, reg)

\* toolRegistry.getTool(name) is defined
GetTool(reg, name) == name \in reg

----------------------------------------------------------------------------
(* Strings.  A string is the sequence of its characters, so that includes,  *)
(* startsWith and toLowerCase are computed on the text itself.              *)

UpperChars ==
    << "A", "B", "C", "D", "E", "F", "G", "H", "I", "J", "K", "L", "M",
       "N", "O", "P", "Q", "R", "S", "T", "U", "V", "W", "X", "Y", "Z" >>
LowerChars ==
    << "a", "b", "c", "d", "e", "f", "g", "h", "i", "j", "k", "l", "m",
       "n", "o", "p", "q", "r", "s", "t", "u", "v", "w", "x", "y", "z" >>
DigitChars == << "0", "1", "2", "3", "4", "5", "6", "7", "8", "9" >>

ToLowerChar(c) ==
    IF \E i \in 1..Len(UpperChars) : UpperChars[i] = c
    THEN LowerChars[CHOOSE i \in 1..Len(UpperChars) : UpperChars[i] = c]
    ELSE c

\* String.prototype.toLowerCase
toLowerCase(s) == [i \in 1..Len(s) |-> ToLowerChar(s[i])]

\* String.prototype.startsWith
StartsWith(s, sub) == Len(sub) <= Len(s) /\ SubSeq(s, 1, Len(sub)) = sub

\* String.prototype.includes
Includes(s, sub) ==
    \E i \in 1..(Len(s) - Len(sub) + 1) : SubSeq(s, i, i + Len(sub) - 1) = sub

\* Array.prototype.includes, for an array of strings
Contains(list, x) == \E i \in 1..Len(list) : list[i] = x

\* a value that is undefined where a string is expected
Undefined == << "undefined" >>

----------------------------------------------------------------------------
(* Texts of the plan steps *)

\* steps as decomposeGoal and its helpers write them: titles
AnalyzeRequestTitle ==
    << "A", "n", "a", "l", "y", "z", "e", " ", "R", "e", "q", "u", "e", "s",
       "t" >>
VerifyToolsTitle ==
    << "V", "e", "r", "i", "f", "y", " ", "T", "o", "o", "l", " ", "A", "v",
       "a", "i", "l", "a", "b", "i", "l", "i", "t", "y" >>
FileSystemTitle ==
    << "C", "h", "e", "c", "k", " ", "F", "i", "l", "e", " ", "S", "y", "s",
       "t", "e", "m", " ", "S", "t", "a", "t", "e" >>
CodeTitle ==
    << "A", "n", "a", "l", "y", "z", "e", " ", "C", "o", "d", "e", " ", "S",
       "t", "r", "u", "c", "t", "u", "r", "e" >>
DeepAnalysisTitle ==
    << "D", "e", "e", "p", " ", "A", "n", "a", "l", "y", "s", "i", "s" >>
GeneralTitle ==
    << "E", "x", "e", "c", "u", "t", "e", " ", "G", "e", "n", "e", "r", "a",
       "l", " ", "T", "a", "s", "k" >>
SynthesizeTitle ==
    << "S", "y", "n", "t", "h", "e", "s", "i", "z", "e", " ", "R", "e", "s",
       "u", "l", "t", "s" >>
\* validation criteria
GoalUnderstoodText ==
    << "G", "o", "a", "l", " ", "i", "s", " ", "c", "l", "e", "a", "r", "l",
       "y", " ", "u", "n", "d", "e", "r", "s", "t", "o", "o", "d" >>
ContextAnalyzedText ==
    << "C", "o", "n", "t", "e", "x", "t", " ", "i", "s", " ", "a", "n", "a",
       "l", "y", "z", "e", "d" >>
ToolsAvailableText ==
    << "A", "l", "l", " ", "r", "e", "q", "u", "i", "r", "e", "d", " ", "t",
       "o", "o", "l", "s", " ", "a", "r", "e", " ", "a", "v", "a", "i", "l",
       "a", "b", "l", "e" >>
FileSystemClearText ==
    << "F", "i", "l", "e", " ", "s", "y", "s", "t", "e", "m", " ", "s", "t",
       "a", "t", "e", " ", "i", "s", " ", "c", "l", "e", "a", "r" >>
CodeUnderstoodText ==
    << "C", "o", "d", "e", " ", "s", "t", "r", "u", "c", "t", "u", "r", "e",
       " ", "i", "s", " ", "u", "n", "d", "e", "r", "s", "t", "o", "o", "d" >>
AnalysisThoroughText ==
    << "A", "n", "a", "l", "y", "s", "i", "s", " ", "i", "s", " ", "t", "h",
       "o", "r", "o", "u", "g", "h", " ", "a", "n", "d", " ", "a", "c", "c",
       "u", "r", "a", "t", "e" >>
TaskCompletedText ==
    << "T", "a", "s", "k", " ", "c", "o", "m", "p", "l", "e", "t", "e", "d",
       " ", "s", "u", "c", "c", "e", "s", "s", "f", "u", "l", "l", "y" >>
AllStepsCompletedText ==
    << "A", "l", "l", " ", "s", "t", "e", "p", "s", " ", "c", "o", "m", "p",
       "l", "e", "t", "e", "d", " ", "s", "u", "c", "c", "e", "s", "s", "f",
       "u", "l", "l", "y" >>
GoalAchievedText ==
    << "G", "o", "a", "l", " ", "a", "c", "h", "i", "e", "v", "e", "d" >>
\* the texts of the step bodies
AnalysisCompletedText ==
    << "A", "n", "a", "l", "y", "s", "i", "s", " ", "c", "o", "m", "p", "l",
       "e", "t", "e", "d", " ", "f", "o", "r", " ", "s", "t", "e", "p", ":",
       " " >>
ToolCallCompletedText ==
    << "T", "o", "o", "l", " ", "c", "a", "l", "l", " ", "c", "o", "m", "p",
       "l", "e", "t", "e", "d", " ", "f", "o", "r", " ", "s", "t", "e", "p",
       ":", " " >>
VerificationCompletedText ==
    << "V", "e", "r", "i", "f", "i", "c", "a", "t", "i", "o", "n", " ", "c",
       "o", "m", "p", "l", "e", "t", "e", "d", " ", "f", "o", "r", " ", "s",
       "t", "e", "p", ":", " " >>
DecisionCompletedText ==
    << "D", "e", "c", "i", "s", "i", "o", "n", " ", "c", "o", "m", "p", "l",
       "e", "t", "e", "d", " ", "f", "o", "r", " ", "s", "t", "e", "p", ":",
       " " >>
SynthesisCompletedText ==
    << "S", "y", "n", "t", "h", "e", "s", "i", "s", " ", "c", "o", "m", "p",
       "l", "e", "t", "e", "d", ".", " ", "S", "u", "c", "c", "e", "s", "s",
       "f", "u", "l", "l", "y", " ", "e", "x", "e", "c", "u", "t", "e", "d",
       " " >>
OutOfText ==
    << " ", "o", "u", "t", " ", "o", "f", " " >>
StepsEndText ==
    << " ", "s", "t", "e", "p", "s", "." >>
\* title and criterion of a step a caller wrote
SearchTitle ==
    << "S", "e", "a", "r", "c", "h" >>
SearchDoneText ==
    << "S", "e", "a", "r", "c", "h", " ", "i", "s", " ", "d", "o", "n", "e" >>

\* String(n) for a natural number
RECURSIVE NumberText(_)
NumberText(n) ==
    IF n < 10 THEN << DigitChars[n + 1] >>
    ELSE NumberText(n \div 10) \o << DigitChars[(n % 10) + 1] >>

\* s.split(' ')[0]
RECURSIVE FirstWord(_)
FirstWord(s) ==
    IF s = << >> \/ Head(s) = " " THEN << >>
    ELSE << Head(s) >> \o FirstWord(Tail(s))

\* a step with the two texts the step bodies and validateStepOutput read
WithTexts(step, title, validationCriteria) ==
    step @@ [title |-> title, validationCriteria |-> validationCriteria]

----------------------------------------------------------------------------
(* Goal classification and decomposition *)

\* A goal is represented by the outcome of the three keyword tests applied to
\* its text: isFileSystemTask, isCodeTask, isAnalysisTask.
MkGoal(fs, code, analysis) == [fs |-> fs, code |-> code, analysis |-> analysis]

\* one goal per category, and one that passes all three tests
Goals == {MkGoal(TRUE, FALSE, FALSE), MkGoal(FALSE, TRUE, FALSE),
          MkGoal(FALSE, FALSE, TRUE), MkGoal(FALSE, FALSE, FALSE),
          MkGoal(TRUE, TRUE, TRUE)}

isFileSystemTask(goal) == goal.fs
isCodeTask(goal) == goal.code
isAnalysisTask(goal) == goal.analysis

\* A PlanStep.  hasCriteria: validationCriteria is present and non-empty;
\* hasFallback: fallbackStrategy is a non-empty string.
MkStep(id, type, deps, cx, tools, crit, fb) ==
    [id |-> id, type |-> type, dependencies |-> deps, estimatedComplexity |-> cx,
     requiredTools |-> tools, hasCriteria |-> crit, hasFallback |-> fb]

createFileSystemSteps(goal, availableTools) ==
    << WithTexts(MkStep("fs-1", "tool_call", << "verification-1" >>, "low",
                        << "ls", "read_file" >>, TRUE, FALSE),
                 FileSystemTitle, << FileSystemClearText >>) >>

createCodeSteps(goal, availableTools) ==
    << WithTexts(MkStep("code-1", "tool_call", << "verification-1" >>, "medium",
                        << "read_file", "grep" >>, TRUE, FALSE),
                 CodeTitle, << CodeUnderstoodText >>) >>

createAnalysisSteps(goal, availableTools) ==
    << WithTexts(MkStep("analysis-2", "analysis", << "verification-1" >>, "medium",
                        << "read_file", "grep", "ls" >>, TRUE, FALSE),
                 DeepAnalysisTitle, << AnalysisThoroughText >>) >>

createGeneralSteps(goal, availableTools) ==
    << WithTexts(MkStep("general-1", "tool_call", << "verification-1" >>, "medium",
                        SliceFirst(availableTools, 3), TRUE, FALSE),
                 GeneralTitle, << TaskCompletedText >>) >>

CategorySteps(goal, availableTools) ==
    IF isFileSystemTask(goal) THEN createFileSystemSteps(goal, availableTools)
    ELSE IF isCodeTask(goal) THEN createCodeSteps(goal, availableTools)
    ELSE IF isAnalysisTask(goal) THEN createAnalysisSteps(goal, availableTools)
    ELSE createGeneralSteps(goal, availableTools)

\* the dependencies the synthesis step is given: steps.slice(0, -1).map(s => s.id),
\* evaluated on the array as it is before the synthesis step is pushed
SynthesisDeps(steps) == MapIds(SliceDropLast(steps))

decomposeGoal(goal, availableTools) ==
    LET s2 == << WithTexts(MkStep("analysis-1", "analysis", << >>, "low",
                                  << "read_file", "ls", "grep" >>, TRUE, TRUE),
                           AnalyzeRequestTitle,
                           << GoalUnderstoodText, ContextAnalyzedText >>),
                 WithTexts(MkStep("verification-1", "verification",
                                  << "analysis-1" >>, "low", << >>, TRUE, TRUE),
                           VerifyToolsTitle, << ToolsAvailableText >>) >>
        s3 == s2 \o CategorySteps(goal, availableTools)
    IN  Append(s3, WithTexts(MkStep("synthesis-1", "synthesis", SynthesisDeps(s3),
                                    "medium", << >>, TRUE, TRUE),
                             SynthesizeTitle,
                             << AllStepsCompletedText, GoalAchievedText >>))

----------------------------------------------------------------------------
(* Cycle detection and topological order *)

RECURSIVE hasCycle(_, _, _), hasCycleDeps(_, _, _, _)

\* variant: the step id is never taken off the recursion stack
hasCycle_NoPop(steps, stepId, st) ==
    IF stepId \in st.stack THEN [r |-> TRUE, visited |-> st.visited, stack |-> st.stack]
    ELSE IF stepId \in st.visited
         THEN [r |-> FALSE, visited |-> st.visited, stack |-> st.stack]
    ELSE LET st1 == [visited |-> st.visited \cup {stepId},
                     stack |-> st.stack \cup {stepId}]
             i == FindIndex(steps, stepId)
         IN  IF i # 0 THEN hasCycleDeps(steps, steps[i].dependencies, 1, st1)
             ELSE [r |-> FALSE, visited |-> st1.visited, stack |-> st1.stack]

\* the closure hasCycle of hasCyclicDependencies; st = [visited, stack] are the
\* two sets it shares across calls; the result carries them back
hasCycle(steps, stepId, st) ==
    IF stepId \in st.stack THEN [r |-> TRUE, visited |-> st.visited, stack |-> st.stack]
    ELSE IF stepId \in st.visited
         THEN [r |-> FALSE, visited |-> st.visited, stack |-> st.stack]
    ELSE LET st1 == [visited |-> st.visited \cup {stepId},
                     stack |-> st.stack \cup {stepId}]
             i == FindIndex(steps, stepId)
             inner == IF i # 0 THEN hasCycleDeps(steps, steps[i].dependencies, 1, st1)
                      ELSE [r |-> FALSE, visited |-> st1.visited, stack |-> st1.stack]
         IN  IF inner.r THEN inner
             ELSE [r |-> FALSE, visited |-> inner.visited,
                   stack |-> inner.stack \ {stepId}]

\* for (const dep of step.dependencies) if (hasCycle(dep)) return true
hasCycleDeps(steps, deps, k, st) ==
    IF k > Len(deps) THEN [r |-> FALSE, visited |-> st.visited, stack |-> st.stack]
    ELSE LET res == hasCycle(steps, deps[k], st)
         IN  IF res.r THEN res
             ELSE hasCycleDeps(steps, deps, k + 1,
                               [visited |-> res.visited, stack |-> res.stack])

\* for (const step of steps) if (hasCycle(step.id)) return true
RECURSIVE hasCycleFrom(_, _, _)
hasCycleFrom(steps, k, st) ==
    IF k > Len(steps) THEN FALSE
    ELSE LET res == hasCycle(steps, steps[k].id, st)
         IN  IF res.r THEN TRUE
             ELSE hasCycleFrom(steps, k + 1,
                               [visited |-> res.visited, stack |-> res.stack])

hasCyclicDependencies(steps) ==
    hasCycleFrom(steps, 1, [visited |-> {}, stack |-> {}])

RECURSIVE visit(_, _, _), visitDeps(_, _, _, _)

\* the closure visit of topologicalSort; st = [sorted, visited, visiting, threw]
visit(steps, stepId, st) ==
    IF st.threw THEN st
    ELSE IF stepId \in st.visited THEN st
    ELSE IF stepId \in st.visiting THEN [st EXCEPT !.threw = TRUE]
    ELSE LET st1 == [st EXCEPT !.visiting = @ \cup {stepId}]
             i == FindIndex(steps, stepId)
         IN  IF i = 0 THEN [st1 EXCEPT !.visiting = @ \ {stepId}]
             ELSE LET st2 == visitDeps(steps, steps[i].dependencies, 1, st1)
                  IN  IF st2.threw THEN st2
                      ELSE [st2 EXCEPT !.sorted = Append(@, steps[i]),
                                       !.visited = @ \cup {stepId},
                                       !.visiting = @ \ {stepId}]

visitDeps(steps, deps, k, st) ==
    IF k > Len(deps) \/ st.threw THEN st
    ELSE visitDeps(steps, deps, k + 1, visit(steps, deps[k], st))

RECURSIVE visitFrom(_, _, _)
visitFrom(steps, k, st) ==
    IF k > Len(steps) \/ st.threw THEN st
    ELSE visitFrom(steps, k + 1, visit(steps, steps[k].id, st))

\* variant: the steps are returned in declaration order
topologicalSort_Unsorted(steps) == [sorted |-> steps, threw |-> FALSE]

\* result: [sorted, threw]; threw stands for Error('Circular dependency detected')
topologicalSort(steps) ==
    LET st == visitFrom(steps, 1, [sorted |-> << >>, visited |-> {},
                                   visiting |-> {}, threw |-> FALSE])
    IN  [sorted |-> st.sorted, threw |-> st.threw]

----------------------------------------------------------------------------
(* validatePlan *)

\* errors pushed for one step's required tools, in array order
RECURSIVE ToolErrorsOfStep(_, _, _, _)
ToolErrorsOfStep(step, allTools, k, acc) ==
    IF k > Len(step.requiredTools) THEN acc
    ELSE ToolErrorsOfStep(step, allTools, k + 1,
            IF step.requiredTools[k] \notin Range(allTools)
            THEN Append(acc, [kind |-> "tool", step |-> step.id,
                              name |-> step.requiredTools[k]])
            ELSE acc)

RECURSIVE ToolErrors(_, _, _, _)
ToolErrors(steps, allTools, k, acc) ==
    IF k > Len(steps) THEN acc
    ELSE ToolErrors(steps, allTools, k + 1,
                    ToolErrorsOfStep(steps[k], allTools, 1, acc))

\* errors pushed for one step's dependencies that name no step
RECURSIVE OrphanErrorsOfStep(_, _, _, _)
OrphanErrorsOfStep(step, stepIds, k, acc) ==
    IF k > Len(step.dependencies) THEN acc
    ELSE OrphanErrorsOfStep(step, stepIds, k + 1,
            IF step.dependencies[k] \notin stepIds
            THEN Append(acc, [kind |-> "dependency", step |-> step.id,
                              name |-> step.dependencies[k]])
            ELSE acc)

RECURSIVE OrphanErrors(_, _, _, _)
OrphanErrors(steps, stepIds, k, acc) ==
    IF k > Len(steps) THEN acc
    ELSE OrphanErrors(steps, stepIds, k + 1,
                      OrphanErrorsOfStep(steps[k], stepIds, 1, acc))

\* warnings pushed for the steps that lack validation criteria
RECURSIVE CriteriaWarnings(_, _, _)
CriteriaWarnings(steps, k, acc) ==
    IF k > Len(steps) THEN acc
    ELSE CriteriaWarnings(steps, k + 1,
            IF ~steps[k].hasCriteria
            THEN Append(acc, [kind |-> "criteria", step |-> steps[k].id, name |-> ""])
            ELSE acc)

\* the high-complexity threshold of validatePlan
MaxHighComplexity == 3

CircularError == [kind |-> "circular", step |-> "", name |-> ""]
ComplexityWarning == [kind |-> "complexity", step |-> "", name |-> ""]

CycleCheckErrors(steps) ==
    IF hasCyclicDependencies(steps) THEN << CircularError >> ELSE << >>

ComplexityWarnings(steps) ==
    IF Cardinality({k \in 1..Len(steps) : steps[k].estimatedComplexity = "high"})
          > MaxHighComplexity
    THEN << ComplexityWarning >> ELSE << >>

\* variant: the required tools are checked against the plan's own snapshot
ValidationToolSet_Snapshot(plan, reg) == plan.availableTools

\* the tool names validatePlan checks required tools against
ValidationToolSet(plan, reg) == GetAllToolNames(reg)

\* variant: a plan with warnings is not valid either
IsValidOf_NoWarnings(errors, warnings) == Len(errors) = 0 /\ Len(warnings) = 0

\* isValid: errors.length === 0
IsValidOf(errors, warnings) == Len(errors) = 0

validatePlan(plan, reg) ==
    LET e1 == CycleCheckErrors(plan.steps)
        allTools == ValidationToolSet(plan, reg)
        e2 == ToolErrors(plan.steps, allTools, 1, e1)
        stepIds == Range(MapIds(plan.steps))
        errors == OrphanErrors(plan.steps, stepIds, 1, e2)
        w1 == ComplexityWarnings(plan.steps)
        warnings == CriteriaWarnings(plan.steps, 1, w1)
    IN  [isValid |-> IsValidOf(errors, warnings), errors |-> errors,
         warnings |-> warnings, suggestions |-> << >>]

----------------------------------------------------------------------------
(* createPlan *)

DurationOf(cx) ==
    CASE cx = "low" -> 30
      [] cx = "medium" -> 120
      [] cx = "high" -> 300
      [] OTHER -> 60

RECURSIVE calculateEstimatedDuration(_)
calculateEstimatedDuration(steps) ==
    IF steps = << >> THEN 0
    ELSE DurationOf(Head(steps).estimatedComplexity)
         + calculateEstimatedDuration(Tail(steps))

assessRiskLevel(steps) ==
    LET n == Cardinality({k \in 1..Len(steps) : steps[k].estimatedComplexity = "high"})
    IN  IF n > 2 THEN "high" ELSE IF n > 0 THEN "medium" ELSE "low"

MkPlan(id, goal, steps, availableTools) ==
    [id |-> id, goal |-> goal, steps |-> steps,
     estimatedDuration |-> calculateEstimatedDuration(steps),
     riskLevel |-> assessRiskLevel(steps), availableTools |-> availableTools]

\* variant: createPlan never rejects a plan
CreateThrows_Never(validation) == FALSE

\* if (!validation.isValid) throw new Error('Invalid plan: ...')
CreateThrows(validation) == ~validation.isValid

\* variant: the plan is stored before it is validated
PlansAfterCreate_StoreFirst(plans, plan, validation) ==
    [plans EXCEPT ![plan.id] = plan]

\* activePlans after createPlan: the plan is stored after the validation, on
\* the path that did not throw
PlansAfterCreate(plans, plan, validation) ==
    IF CreateThrows(validation) THEN plans
    ELSE [plans EXCEPT ![plan.id] = plan]

CreatePlan(goal) ==
    /\ nextPlanId <= MaxPlans
    /\ LET availableTools == GetAllToolNames(registry)
           steps == decomposeGoal(goal, availableTools)
           plan == MkPlan(nextPlanId, goal, steps, availableTools)
           validation == validatePlan(plan, registry)
       IN  /\ nextPlanId' = nextPlanId + 1
           /\ activePlans' = PlansAfterCreate(activePlans, plan, validation)
           /\ IF CreateThrows(validation)
              THEN /\ lastCall' = [op |-> "createPlan", threw |-> "invalid",
                                  planId |-> nextPlanId]
              ELSE /\ lastCall' = [op |-> "createPlan", threw |-> "none",
                                  planId |-> nextPlanId]
    /\ UNCHANGED << registry, executionResults, held >>
    /\ UNCHANGED execVars
    /\ UNCHANGED << validatorVars, reasoningVars, agentVars >>

----------------------------------------------------------------------------
(* The other public methods and the registry's changes *)

\* a call validatePlan(plan); tools: the registry at the time of the call
ValidatePlanCall(plan) ==
    /\ lastCall' = [op |-> "validatePlan", threw |-> "none", plan |-> plan,
                    tools |-> registry, result |-> validatePlan(plan, registry)]
    /\ UNCHANGED << registry, activePlans, executionResults, nextPlanId, held >>
    /\ UNCHANGED execVars
    /\ UNCHANGED << validatorVars, reasoningVars, agentVars >>

\* the caller validates a stored plan (the object createPlan returned)
ValidateStored(planId) ==
    /\ activePlans[planId] # NoPlan
    /\ ValidatePlanCall(activePlans[planId])

\* the caller validates the plan it built itself
ValidateHeld ==
    /\ held # NoPlan
    /\ ValidatePlanCall(held)

\* getAllPlans(), as a set
getAllPlans(plans) == {plans[p] : p \in {q \in DOMAIN plans : plans[q] # NoPlan}}

DeletePlan(planId) ==
    /\ activePlans' = [activePlans EXCEPT ![planId] = NoPlan]
    /\ executionResults' = [executionResults EXCEPT ![planId] = NoResults]
    /\ lastCall' = [op |-> "deletePlan", threw |-> "none", planId |-> planId,
                    deleted |-> activePlans[planId] # NoPlan]
    /\ UNCHANGED << registry, nextPlanId, held >>
    /\ UNCHANGED execVars
    /\ UNCHANGED << validatorVars, reasoningVars, agentVars >>

RegisterTool(t) ==
    /\ t \in Removable
    /\ t \notin registry
    /\ registry' = registry \cup {t}
    /\ UNCHANGED << activePlans, executionResults, nextPlanId, held, lastCall >>
    /\ UNCHANGED execVars
    /\ UNCHANGED << validatorVars, reasoningVars, agentVars >>

UnregisterTool(t) ==
    /\ t \in Removable
    /\ t \in registry
    /\ registry' = registry \ {t}
    /\ UNCHANGED << activePlans, executionResults, nextPlanId, held, lastCall >>
    /\ UNCHANGED execVars
    /\ UNCHANGED << validatorVars, reasoningVars, agentVars >>

----------------------------------------------------------------------------
(* executePlan *)

\* variant: a dependency counts as satisfied as soon as it has any result
DepsSatisfied_AnyResult(step, res) ==
    \A k \in 1..Len(step.dependencies) :
        \E r \in 1..Len(res) : res[r].stepId = step.dependencies[k]

\* step.dependencies.every(depId => results.some(r => r.stepId === depId && r.success))
DepsSatisfied(step, res) ==
    \A k \in 1..Len(step.dependencies) :
        \E r \in 1..Len(res) :
            res[r].stepId = step.dependencies[k] /\ res[r].success

\* variant: the synthesized result lists the step's tools as used
DepsFailedResult_WithTools(step) ==
    [stepId |-> step.id, success |-> FALSE, toolsUsed |-> step.requiredTools,
     confidence |-> 0, errors |-> << "Dependencies not satisfied" >>]

\* the result synthesized for a step whose dependencies are not satisfied
DepsFailedResult(step) ==
    [stepId |-> step.id, success |-> FALSE, toolsUsed |-> << >>,
     confidence |-> 0, errors |-> << "Dependencies not satisfied" >>]

RECURSIVE MissingTools(_, _, _, _)
MissingTools(step, reg, k, acc) ==
    IF k > Len(step.requiredTools) THEN acc
    ELSE MissingTools(step, reg, k + 1,
            IF ~GetTool(reg, step.requiredTools[k])
            THEN Append(acc, step.requiredTools[k]) ELSE acc)

\* the text the body of a step returns: executeAnalysisStep,
\* executeToolCallStep, executeVerificationStep, executeDecisionStep,
\* executeSynthesisStep
StepOutput(step, previousResults) ==
    CASE step.type = "analysis" -> AnalysisCompletedText \o step.title
      [] step.type = "tool_call" -> ToolCallCompletedText \o step.title
      [] step.type = "verification" -> VerificationCompletedText \o step.title
      [] step.type = "decision" -> DecisionCompletedText \o step.title
      [] step.type = "synthesis" ->
            SynthesisCompletedText
            \o NumberText(Cardinality({k \in 1..Len(previousResults) :
                                          previousResults[k].success}))
            \o OutOfText \o NumberText(Len(previousResults)) \o StepsEndText
      [] OTHER -> << >>

\* an absent list of criteria passes, as does an empty one
validateStepOutput(step, output) ==
    \A k \in 1..Len(step.validationCriteria) :
        Includes(toLowerCase(output),
                 FirstWord(toLowerCase(step.validationCriteria[k])))

\* HierarchicalPlanner.calculateStepConfidence, in hundredths
calculateResultConfidence(step, output, validationPassed) ==
    LET c1 == 50 + (IF validationPassed THEN 30 ELSE 0)
        c2 == c1 + (IF Len(output) > 50 THEN 10 ELSE 0)
        c3 == c2 + (IF step.estimatedComplexity = "low" THEN 10 ELSE 0)
    IN  IF c3 < 100 THEN c3 ELSE 100

\* variant: a throw inside the try block is not turned into a failure
executeStep_ThrowIgnored(step, reg, threw, previousResults) ==
    [stepId |-> step.id, success |-> TRUE,
     toolsUsed |-> IF step.type = "tool_call" THEN step.requiredTools ELSE << >>,
     confidence |-> calculateResultConfidence(step, StepOutput(step, previousResults),
                     validateStepOutput(step, StepOutput(step, previousResults))),
     errors |-> IF threw THEN << "threw" >> ELSE MissingTools(step, reg, 1, << >>)]

\* variant: a missing tool is noted in the errors but the body is run
executeStep_BodyRunAnyway(step, reg, threw, previousResults) ==
    IF threw
    THEN [stepId |-> step.id, success |-> FALSE, toolsUsed |-> << >>,
          confidence |-> 0, errors |-> << "threw" >>]
    ELSE [stepId |-> step.id, success |-> Len(MissingTools(step, reg, 1, << >>)) = 0,
          toolsUsed |-> IF step.type = "tool_call" THEN step.requiredTools
                        ELSE << >>,
          confidence |-> calculateResultConfidence(step, StepOutput(step, previousResults),
                     validateStepOutput(step, StepOutput(step, previousResults))),
          errors |-> MissingTools(step, reg, 1, << >>)]

\* executeStep; threw: something inside its try block threw (the registry's
\* getTool is an external call), so the catch block builds the result
executeStep(step, reg, threw, previousResults) ==
    LET errors == MissingTools(step, reg, 1, << >>)
    IN  IF threw
        THEN [stepId |-> step.id, success |-> FALSE, toolsUsed |-> << >>,
              confidence |-> 0, errors |-> << "threw" >>]
        ELSE IF Len(errors) > 0
        THEN [stepId |-> step.id, success |-> FALSE, toolsUsed |-> << >>,
              confidence |-> 0, errors |-> errors]
        ELSE [stepId |-> step.id, success |-> TRUE,
              toolsUsed |-> IF step.type = "tool_call" THEN step.requiredTools
                            ELSE << >>,
              confidence |-> calculateResultConfidence(step, StepOutput(step, previousResults),
                     validateStepOutput(step, StepOutput(step, previousResults))),
              errors |-> << >>]

\* variant: any failed step ends the loop, fallback or not
BreaksLoop_IgnoreFallback(step, stepResult) == ~stepResult.success

\* if (!stepResult.success && !step.fallbackStrategy) break
BreaksLoop(step, stepResult) == ~stepResult.success /\ ~step.hasFallback

\* executePlan up to its loop: plan lookup and topological sort.  The call is
\* split at the loop iterations; the iterations that do not reach an await read
\* neither the registry nor the maps, so the finer split adds no outcome.
ExecBegin(planId) ==
    /\ pc = "idle"
    /\ LET plan == activePlans[planId]
           ts == topologicalSort(plan.steps)
       IN  IF plan = NoPlan
           THEN /\ lastCall' = [op |-> "executePlan", threw |-> "not-found",
                               planId |-> planId]
                /\ UNCHANGED << executionResults >>
                /\ UNCHANGED execVars
           ELSE IF ts.threw
           THEN /\ lastCall' = [op |-> "executePlan", threw |-> "circular",
                               planId |-> planId]
                /\ UNCHANGED << executionResults >>
                /\ UNCHANGED execVars
           ELSE /\ execPlanId' = planId
                /\ sortedSteps' = ts.sorted
                /\ cursor' = 1
                /\ results' = << >>
                /\ invoked' = << >>
                /\ IF Len(ts.sorted) = 0
                   THEN /\ pc' = "idle"
                        /\ executionResults' =
                             [executionResults EXCEPT
                                ![planId] = [present |-> TRUE, list |-> << >>]]
                        /\ lastCall' = [op |-> "executePlan", threw |-> "none",
                                        planId |-> planId]
                   ELSE /\ pc' = "loop"
                        /\ lastCall' = NoCall
                        /\ UNCHANGED executionResults
    /\ UNCHANGED << registry, activePlans, nextPlanId, held >>
    /\ UNCHANGED << validatorVars, reasoningVars, agentVars >>

\* one iteration of the loop over sortedSteps; after the last iteration, or
\* a break, the results are stored and returned
ExecStep ==
    /\ pc = "loop"
    /\ cursor <= Len(sortedSteps)
    /\ \E threw \in BOOLEAN :
         LET step == sortedSteps[cursor]
             run == DepsSatisfied(step, results)
             stepResult == IF run THEN executeStep(step, registry, threw, results)
                           ELSE DepsFailedResult(step)
             stop == run /\ BreaksLoop(step, stepResult)
             done == stop \/ cursor = Len(sortedSteps)
         IN  /\ (~run => ~threw)
             /\ results' = Append(results, stepResult)
             /\ invoked' = IF run THEN Append(invoked, step.id) ELSE invoked
             /\ cursor' = cursor + 1
             /\ IF done
                THEN /\ pc' = "idle"
                     /\ executionResults' =
                          [executionResults EXCEPT
                             ![execPlanId] = [present |-> TRUE, list |-> results']]
                     /\ lastCall' = [op |-> "executePlan", threw |-> "none",
                                     planId |-> execPlanId]
                ELSE /\ pc' = "loop"
                     /\ UNCHANGED << executionResults, lastCall >>
    /\ UNCHANGED << registry, activePlans, nextPlanId, held, execPlanId, sortedSteps >>
    /\ UNCHANGED << validatorVars, reasoningVars, agentVars >>

----------------------------------------------------------------------------
(* Texts of the response validator *)

\* tool names
ShellName ==
    << "s", "h", "e", "l", "l" >>
EditName ==
    << "e", "d", "i", "t" >>
WriteFileName ==
    << "w", "r", "i", "t", "e", "_", "f", "i", "l", "e" >>
EditFileName ==
    << "e", "d", "i", "t", "_", "f", "i", "l", "e" >>
\* shell commands
CmdRmRf ==
    << "r", "m", " ", "-", "r", "f", " ", "x" >>
CmdSudo ==
    << "s", "u", "d", "o", " ", "l", "s" >>
\* file paths
PathEtc ==
    << "/", "e", "t", "c", "/", "x" >>
\* response contents
ContentOk ==
    << "o", "k" >>
ContentSudo ==
    << "r", "u", "n", " ", "S", "u", "d", "o" >>
\* a forbidden operation
OpSudo ==
    << "s", "u", "d", "o" >>
\* contents of reasoning steps
TextTrue ==
    << "i", "t", " ", "i", "s", " ", "t", "r", "u", "e" >>
TextFalse ==
    << "i", "t", " ", "i", "s", " ", "f", "a", "l", "s", "e" >>

RmRfText ==
    << "r", "m", " ", "-", "r", "f" >>
ToolCallText ==
    << "t", "o", "o", "l", "_", "c", "a", "l", "l" >>
ToolCallsText ==
    << "t", "o", "o", "l", "_", "c", "a", "l", "l", "s" >>
ToolPrefixText ==
    << "T", "o", "o", "l", " ", "'" >>
NotAvailableText ==
    << "'", " ", "i", "s", " ", "n", "o", "t", " ", "a", "v", "a", "i", "l",
       "a", "b", "l", "e" >>
NoParametersText ==
    << "'", " ", "c", "a", "l", "l", "e", "d", " ", "w", "i", "t", "h", "o",
       "u", "t", " ", "p", "a", "r", "a", "m", "e", "t", "e", "r", "s" >>
DangerousShellText ==
    << "P", "o", "t", "e", "n", "t", "i", "a", "l", "l", "y", " ", "d", "a",
       "n", "g", "e", "r", "o", "u", "s", " ", "s", "h", "e", "l", "l", " ",
       "c", "o", "m", "m", "a", "n", "d", " ", "d", "e", "t", "e", "c", "t",
       "e", "d" >>
ReasoningRequiredText ==
    << "R", "e", "a", "s", "o", "n", "i", "n", "g", " ", "i", "s", " ", "r",
       "e", "q", "u", "i", "r", "e", "d", " ", "b", "u", "t", " ", "n", "o",
       "t", " ", "p", "r", "o", "v", "i", "d", "e", "d" >>
ReasoningText ==
    << "r", "e", "a", "s", "o", "n", "i", "n", "g" >>
LowConfidenceText ==
    << "R", "e", "s", "p", "o", "n", "s", "e", " ", "c", "o", "n", "f", "i",
       "d", "e", "n", "c", "e", " ", "b", "e", "l", "o", "w", " ", "t", "h",
       "r", "e", "s", "h", "o", "l", "d" >>
ResponseText ==
    << "r", "e", "s", "p", "o", "n", "s", "e" >>
ForbiddenText ==
    << "R", "e", "s", "p", "o", "n", "s", "e", " ", "c", "o", "n", "t", "a",
       "i", "n", "s", " ", "f", "o", "r", "b", "i", "d", "d", "e", "n", " ",
       "o", "p", "e", "r", "a", "t", "i", "o", "n", ":", " " >>
ContentText ==
    << "c", "o", "n", "t", "e", "n", "t" >>
HallucinatedText ==
    << "H", "a", "l", "l", "u", "c", "i", "n", "a", "t", "e", "d", " ", "t",
       "o", "o", "l", " ", "c", "a", "l", "l", ":", " " >>
ContradictoryText ==
    << "C", "o", "n", "t", "r", "a", "d", "i", "c", "t", "o", "r", "y", " ",
       "r", "e", "a", "s", "o", "n", "i", "n", "g", " ", "s", "t", "e", "p",
       "s", " ", "d", "e", "t", "e", "c", "t", "e", "d" >>
ReasoningStepText ==
    << "r", "e", "a", "s", "o", "n", "i", "n", "g", "_", "s", "t", "e", "p",
       "_" >>
RuleFailedText ==
    << "V", "a", "l", "i", "d", "a", "t", "i", "o", "n", " ", "r", "u", "l",
       "e", " ", "f", "a", "i", "l", "e", "d" >>
ValidatorText ==
    << "v", "a", "l", "i", "d", "a", "t", "o", "r" >>
RemovedNoteText ==
    << "\n", "\n", "[", "N", "o", "t", "e", ":", " ", "S", "o", "m", "e",
       " ", "t", "o", "o", "l", " ", "c", "a", "l", "l", "s", " ", "w", "e",
       "r", "e", " ", "r", "e", "m", "o", "v", "e", "d", " ", "d", "u", "e",
       " ", "t", "o", " ", "v", "a", "l", "i", "d", "a", "t", "i", "o", "n",
       " ", "i", "s", "s", "u", "e", "s", "]" >>
CustomUnsafeText ==
    << "c", "u", "s", "t", "o", "m", " ", "c", "h", "e", "c", "k", ":", " ",
       "s", "h", "e", "l", "l", " ", "c", "a", "l", "l" >>
ToolCall0Text ==
    << "t", "o", "o", "l", "_", "c", "a", "l", "l", "_", "0" >>
DangerousCommandTexts ==
    << << "r", "m", " ", "-", "r", "f" >>,
       << "s", "u", "d", "o" >>,
       << "c", "h", "m", "o", "d", " ", "7", "7", "7" >>,
       << "m", "k", "f", "s" >>,
       << "d", "d", " ", "i", "f", "=" >>,
       << "k", "i", "l", "l", " ", "-", "9" >> >>
DangerousPathTexts ==
    << << "/", "e", "t", "c", "/" >>,
       << "/", "u", "s", "r", "/", "b", "i", "n", "/" >>,
       << "/", "b", "o", "o", "t", "/" >>,
       << "/", "s", "y", "s", "/" >>,
       << "/", "p", "r", "o", "c", "/" >> >>
ContradictoryPairs ==
    << << << "e", "x", "i", "s", "t", "s" >>,
          << "d", "o", "e", "s", " ", "n", "o", "t", " ", "e", "x", "i", "s", "t" >> >>,
       << << "t", "r", "u", "e" >>,
          << "f", "a", "l", "s", "e" >> >>,
       << << "v", "a", "l", "i", "d" >>,
          << "i", "n", "v", "a", "l", "i", "d" >> >>,
       << << "p", "o", "s", "s", "i", "b", "l", "e" >>,
          << "i", "m", "p", "o", "s", "s", "i", "b", "l", "e" >> >> >>

----------------------------------------------------------------------------
(* The response validator (ResponseValidator and its rules) *)

\* ToolCall.parameters: absent: the object is missing; otherwise command and
\* file_path are the values of these two keys, Undefined when the key is
\* not there
NoParameters == [absent |-> TRUE, command |-> Undefined, file_path |-> Undefined]
Parameters(command, file_path) ==
    [absent |-> FALSE, command |-> command, file_path |-> file_path]

\* Object.keys(parameters).length
KeyCount(parameters) ==
    (IF parameters.command # Undefined THEN 1 ELSE 0)
    + (IF parameters.file_path # Undefined THEN 1 ELSE 0)

MkToolCall(name, parameters) == [name |-> name, parameters |-> parameters]

\* AIResponse.confidence, in hundredths; defined = FALSE: the field is missing
NoConfidence == [defined |-> FALSE, value |-> 0]
Confidence(v) == [defined |-> TRUE, value |-> v]

\* the truthiness test response.confidence && ...
ConfidenceTruthy(c) == c.defined /\ c.value # 0

\* AIResponse.reasoning: Undefined, or the list of the steps' contents
MkResponse(content, toolCalls, reasoning, confidence) ==
    [content |-> content, toolCalls |-> toolCalls, reasoning |-> reasoning,
     confidence |-> confidence]

NoResponse == [content |-> Undefined]

MkIssue(type, severity, message, location) ==
    [type |-> type, severity |-> severity, message |-> message,
     location |-> location]

\* a rule of the validator; the behaviour of a built-in rule follows from its
\* name, that of a rule passed to addValidationRule is part of the rule: it
\* throws, or it returns its issues
BuiltinRule(name) == [name |-> name, custom |-> FALSE, throws |-> FALSE,
                      issues |-> << >>]
CustomRule(name, throws, issues) ==
    [name |-> name, custom |-> TRUE, throws |-> throws, issues |-> issues]

\* initializeValidationRules
DefaultRules ==
    << BuiltinRule("ToolAvailability"), BuiltinRule("ParameterValidation"),
       BuiltinRule("SafetyCheck"), BuiltinRule("ReasoningValidation"),
       BuiltinRule("ConfidenceValidation"), BuiltinRule("ConstraintCompliance"),
       BuiltinRule("HallucinationDetection"), BuiltinRule("LogicalConsistency") >>

\* what a call rule.validate(...) gives: it threw, or it returned issues
Returned(issues) == [threw |-> FALSE, issues |-> issues]
Threw == [threw |-> TRUE, issues |-> << >>]

RECURSIVE ToolAvailabilityIssues(_, _, _, _)
ToolAvailabilityIssues(toolCalls, availableTools, k, acc) ==
    IF k > Len(toolCalls) THEN acc
    ELSE ToolAvailabilityIssues(toolCalls, availableTools, k + 1,
            IF ~Contains(availableTools, toolCalls[k].name)
            THEN Append(acc, MkIssue("tool_not_available", "critical",
                        ToolPrefixText \o toolCalls[k].name \o NotAvailableText,
                        ToolCallsText))
            ELSE acc)

\* variant: the rule reports nothing
ToolAvailabilityRule_Silent(response, context, constraints) == Returned(<< >>)

ToolAvailabilityRule(response, context, constraints) ==
    Returned(ToolAvailabilityIssues(response.toolCalls, context.availableTools,
                                    1, << >>))

RECURSIVE ParameterIssues(_, _, _)
ParameterIssues(toolCalls, k, acc) ==
    IF k > Len(toolCalls) THEN acc
    ELSE ParameterIssues(toolCalls, k + 1,
            IF toolCalls[k].parameters.absent
               \/ KeyCount(toolCalls[k].parameters) = 0
            THEN Append(acc, MkIssue("invalid_parameters", "high",
                        ToolPrefixText \o toolCalls[k].name \o NoParametersText,
                        ToolCallsText))
            ELSE acc)

ParameterValidationRule(response, context, constraints) ==
    Returned(ParameterIssues(response.toolCalls, 1, << >>))

\* reading parameters.command of a tool call without parameters throws
RECURSIVE SafetyIssues(_, _, _)
SafetyIssues(toolCalls, k, acc) ==
    IF k > Len(toolCalls) THEN Returned(acc)
    ELSE IF toolCalls[k].name # ShellName THEN SafetyIssues(toolCalls, k + 1, acc)
    ELSE IF toolCalls[k].parameters.absent THEN Threw
    ELSE LET command == toolCalls[k].parameters.command
         IN  SafetyIssues(toolCalls, k + 1,
                IF command # Undefined /\ command # << >>
                   /\ Includes(command, RmRfText)
                THEN Append(acc, MkIssue("unsafe_operation", "high",
                                         DangerousShellText, ToolCallsText))
                ELSE acc)

SafetyCheckRule(response, context, constraints) ==
    IF ~constraints.safetyChecks THEN Returned(<< >>)
    ELSE SafetyIssues(response.toolCalls, 1, << >>)

\* variant: missing reasoning is reported whether it is required or not
ReasoningValidationRule_Unconditional(response, context, constraints) ==
    Returned(IF response.reasoning = Undefined \/ Len(response.reasoning) = 0
             THEN << MkIssue("missing_reasoning", "high", ReasoningRequiredText,
                             ReasoningText) >>
             ELSE << >>)

ReasoningValidationRule(response, context, constraints) ==
    Returned(IF constraints.requireReasoning
                /\ (response.reasoning = Undefined \/ Len(response.reasoning) = 0)
             THEN << MkIssue("missing_reasoning", "high", ReasoningRequiredText,
                             ReasoningText) >>
             ELSE << >>)

\* the message also carries the two numbers, which nothing reads
ConfidenceValidationRule(response, context, constraints) ==
    Returned(IF ConfidenceTruthy(response.confidence)
                /\ response.confidence.value < constraints.minimumConfidence
             THEN << MkIssue("low_confidence", "medium", LowConfidenceText,
                             ResponseText) >>
             ELSE << >>)

RECURSIVE ForbiddenIssues(_, _, _, _)
ForbiddenIssues(content, forbiddenOperations, k, acc) ==
    IF k > Len(forbiddenOperations) THEN acc
    ELSE ForbiddenIssues(content, forbiddenOperations, k + 1,
            IF Includes(toLowerCase(content), toLowerCase(forbiddenOperations[k]))
            THEN Append(acc, MkIssue("constraint_violation", "high",
                                     ForbiddenText \o forbiddenOperations[k],
                                     ContentText))
            ELSE acc)

ConstraintComplianceRule(response, context, constraints) ==
    Returned(ForbiddenIssues(response.content, constraints.forbiddenOperations,
                             1, << >>))

RECURSIVE HallucinationIssues(_, _, _, _)
HallucinationIssues(toolCalls, availableTools, k, acc) ==
    IF k > Len(toolCalls) THEN acc
    ELSE HallucinationIssues(toolCalls, availableTools, k + 1,
            IF ~Contains(availableTools, toolCalls[k].name)
            THEN Append(acc, MkIssue("hallucination_detected", "high",
                                     HallucinatedText \o toolCalls[k].name,
                                     ToolCallsText))
            ELSE acc)

HallucinationDetectionRule(response, context, constraints) ==
    Returned(HallucinationIssues(response.toolCalls, context.availableTools,
                                 1, << >>))

areContradictory(step1, step2) ==
    LET content1 == toLowerCase(step1)
        content2 == toLowerCase(step2)
    IN  \E p \in 1..Len(ContradictoryPairs) :
            \/ Includes(content1, ContradictoryPairs[p][1])
               /\ Includes(content2, ContradictoryPairs[p][2])
            \/ Includes(content1, ContradictoryPairs[p][2])
               /\ Includes(content2, ContradictoryPairs[p][1])

\* i counts from 0, as the loop does
RECURSIVE ContradictionIssues(_, _, _)
ContradictionIssues(reasoning, i, acc) ==
    IF i >= Len(reasoning) - 1 THEN acc
    ELSE ContradictionIssues(reasoning, i + 1,
            IF areContradictory(reasoning[i + 1], reasoning[i + 2])
            THEN Append(acc, MkIssue("logical_inconsistency", "medium",
                                     ContradictoryText,
                                     Append(ReasoningStepText, DigitChars[i + 1])))
            ELSE acc)

LogicalConsistencyRule(response, context, constraints) ==
    Returned(IF response.reasoning = Undefined THEN << >>
             ELSE ContradictionIssues(response.reasoning, 0, << >>))

\* rule.validate(response, context, constraints)
RuleValidate(rule, response, context, constraints) ==
    IF rule.custom
    THEN IF rule.throws THEN Threw ELSE Returned(rule.issues)
    ELSE CASE rule.name = "ToolAvailability" ->
                ToolAvailabilityRule(response, context, constraints)
           [] rule.name = "ParameterValidation" ->
                ParameterValidationRule(response, context, constraints)
           [] rule.name = "SafetyCheck" ->
                SafetyCheckRule(response, context, constraints)
           [] rule.name = "ReasoningValidation" ->
                ReasoningValidationRule(response, context, constraints)
           [] rule.name = "ConfidenceValidation" ->
                ConfidenceValidationRule(response, context, constraints)
           [] rule.name = "ConstraintCompliance" ->
                ConstraintComplianceRule(response, context, constraints)
           [] rule.name = "HallucinationDetection" ->
                HallucinationDetectionRule(response, context, constraints)
           [] OTHER ->
                LogicalConsistencyRule(response, context, constraints)

\* the issue pushed by the catch block; its message also carries the rule's
\* name and the error's text
RuleFailedIssue(rule) ==
    MkIssue("factual_error", "medium", RuleFailedText, ValidatorText)

\* variant: a rule that throws contributes nothing
RuleContribution_Swallowed(rule, outcome) ==
    IF outcome.threw THEN << >> ELSE outcome.issues

\* one iteration of the loop over the rules: the issues the rule returned, or
\* the issue of the catch block
RuleContribution(rule, outcome) ==
    IF outcome.threw THEN << RuleFailedIssue(rule) >> ELSE outcome.issues

\* the outcomes of the rules, in the order of validationRules
RuleOutcomes(rules, response, context, constraints) ==
    [k \in 1..Len(rules) |-> RuleValidate(rules[k], response, context, constraints)]

RECURSIVE RunRules(_, _, _, _)
RunRules(rules, outcomes, k, acc) ==
    IF k > Len(rules) THEN acc
    ELSE RunRules(rules, outcomes, k + 1,
                  acc \o RuleContribution(rules[k], outcomes[k]))

\* variant: a high-severity issue weighs as much as a medium one
SeverityWeight_FlatHigh(severity) ==
    CASE severity = "critical" -> 40
      [] severity = "high" -> 10
      [] severity = "medium" -> 10
      [] severity = "low" -> 5
      [] OTHER -> 0

\* the switch of calculateValidationScore, in hundredths
SeverityWeight(severity) ==
    CASE severity = "critical" -> 40
      [] severity = "high" -> 20
      [] severity = "medium" -> 10
      [] severity = "low" -> 5
      [] OTHER -> 0

RECURSIVE Penalties(_, _)
Penalties(issues, k) ==
    IF k > Len(issues) THEN 0
    ELSE SeverityWeight(issues[k].severity) + Penalties(issues, k + 1)

\* scores are in hundredths: 100 stands for 1.0
\* variant: the score is not floored at 0
calculateValidationScore_NoFloor(issues, response) ==
    100 - Penalties(issues, 1)
        + (IF response.reasoning # Undefined /\ Len(response.reasoning) > 0
           THEN 10 ELSE 0)
        + (IF ConfidenceTruthy(response.confidence) /\ response.confidence.value > 80
           THEN 5 ELSE 0)

calculateValidationScore(issues, response) ==
    LET s0 == 100 - Penalties(issues, 1)
        s1 == IF response.reasoning # Undefined /\ Len(response.reasoning) > 0
              THEN s0 + 10 ELSE s0
        s2 == IF ConfidenceTruthy(response.confidence)
                 /\ response.confidence.value > 80
              THEN s1 + 5 ELSE s1
    IN  IF s2 > 0 THEN s2 ELSE 0

\* variant: unsafe operations do not close the gate
shouldAllowExecution_NoSafety(issues, score, constraints) ==
    (\A k \in 1..Len(issues) : issues[k].severity # "critical") /\ score >= 60

\* variant: the score alone decides
shouldAllowExecution_ScoreOnly(issues, score, constraints) == score >= 60

shouldAllowExecution(issues, score, constraints) ==
    LET criticalIssues == {k \in 1..Len(issues) : issues[k].severity = "critical"}
        unsafeIssues == {k \in 1..Len(issues) : issues[k].type = "unsafe_operation"}
    IN  IF criticalIssues # {} THEN FALSE
        ELSE IF constraints.safetyChecks /\ unsafeIssues # {} THEN FALSE
        ELSE score >= 60

\* the issues generateCorrectedResponse looks at
ToolIssues(issues) ==
    {k \in 1..Len(issues) :
        /\ Includes(issues[k].location, ToolCallText)
        /\ issues[k].type \in {"tool_not_available", "unsafe_operation"}}

\* the filter of generateCorrectedResponse: a tool call is kept unless the
\* message of one of these issues includes its name
KeepsToolCall(toolCall, issues) ==
    ~\E k \in ToolIssues(issues) : Includes(issues[k].message, toolCall.name)

RECURSIVE FilterToolCalls(_, _, _)
FilterToolCalls(toolCalls, issues, k) ==
    IF k > Len(toolCalls) THEN << >>
    ELSE (IF KeepsToolCall(toolCalls[k], issues) THEN << toolCalls[k] >> ELSE << >>)
         \o FilterToolCalls(toolCalls, issues, k + 1)

generateCorrectedResponse(original, issues, context) ==
    LET validToolCalls == FilterToolCalls(original.toolCalls, issues, 1)
    IN  IF Len(validToolCalls) # Len(original.toolCalls)
        THEN [original EXCEPT !.toolCalls = validToolCalls,
                              !.content = @ \o RemovedNoteText]
        ELSE NoResponse

\* generateSuggestions: the sentences, without repetition, in order
generateSuggestions(issues) ==
    LET has(P(_)) == \E k \in 1..Len(issues) : P(issues[k])
        isCritical(i) == i.severity = "critical"
        isHigh(i) == i.severity = "high"
        isTool(i) == i.type = "tool_not_available"
        isReasoning(i) == i.type = "missing_reasoning"
    IN  (IF has(isCritical)
         THEN << "Address critical issues before proceeding",
                 "Verify tool availability and parameter correctness" >>
         ELSE << >>)
        \o (IF has(isHigh)
            THEN << "Review high-severity issues for safety and accuracy",
                    "Consider alternative approaches for flagged operations" >>
            ELSE << >>)
        \o (IF has(isTool)
            THEN << "Use only verified available tools",
                    "Check tool registry before attempting tool calls" >>
            ELSE << >>)
        \o (IF has(isReasoning)
            THEN << "Provide explicit reasoning for complex decisions",
                    "Include evidence to support conclusions" >>
            ELSE << >>)

validateResponse(rules, response, context, constraints) ==
    LET outcomes == RuleOutcomes(rules, response, context, constraints)
        issues == RunRules(rules, outcomes, 1, << >>)
        score == calculateValidationScore(issues, response)
    IN  [isValid |-> \A k \in 1..Len(issues) :
                        issues[k].severity \notin {"critical", "high"},
         score |-> score,
         issues |-> issues,
         suggestions |-> generateSuggestions(issues),
         correctedResponse |-> generateCorrectedResponse(response, issues, context),
         allowExecution |-> shouldAllowExecution(issues, score, constraints)]

\* a call validateResponse(response, context, constraints).  The rules do not
\* wait for anything, so the call runs to its end before any other call.
\* rules, outcomes: the rule list the call ran and what each rule gave.
ValidateResponse(response, context, constraints) ==
    /\ lastCall' = [op |-> "validateResponse", threw |-> "none",
                    response |-> response, context |-> context,
                    constraints |-> constraints, rules |-> validationRules,
                    outcomes |-> RuleOutcomes(validationRules, response, context,
                                              constraints),
                    result |-> validateResponse(validationRules, response,
                                                context, constraints)]
    /\ UNCHANGED << registry, plannerVars, execVars, validatorVars, reasoningVars, agentVars >>

\* at most this many rules are added to the built-in ones
MaxCustomRules == 1

CustomRuleCount == Cardinality({k \in 1..Len(validationRules) : validationRules[k].custom})

AddValidationRule(rule) ==
    /\ CustomRuleCount < MaxCustomRules
    /\ validationRules' = Append(validationRules, rule)
    /\ lastCall' = [op |-> "addValidationRule", threw |-> "none"]
    /\ UNCHANGED << registry, plannerVars, execVars, reasoningVars, agentVars >>

\* Array.prototype.findIndex(r => r.name === ruleName): 0 if none
RECURSIVE FindRule(_, _, _)
FindRule(rules, ruleName, k) ==
    IF k > Len(rules) THEN 0
    ELSE IF rules[k].name = ruleName THEN k
    ELSE FindRule(rules, ruleName, k + 1)

\* Array.prototype.splice(index, 1)
RemoveAt(s, index) == SubSeq(s, 1, index - 1) \o SubSeq(s, index + 1, Len(s))

RemoveValidationRule(ruleName) ==
    LET index == FindRule(validationRules, ruleName, 1)
    IN  /\ validationRules' = IF index # 0 THEN RemoveAt(validationRules, index)
                              ELSE validationRules
        /\ lastCall' = [op |-> "removeValidationRule", threw |-> "none",
                        removed |-> index # 0]
        /\ UNCHANGED << registry, plannerVars, execVars, reasoningVars, agentVars >>

----------------------------------------------------------------------------
(* The reasoning engine (ReasoningEngine) *)

\* at most this many generateChainId calls in a behaviour
MaxChains == 2

\* longest list of steps of a chain
MaxChainSteps == 4

ChainIds == 1..MaxChains

NoChain == [id |-> 0]

\* A text of the reasoning engine is the sequence of its words, in lower case,
\* as split(/\s+/) of the lower-cased text gives them.
\* the words extractToolsFromContent recognizes (mcp_x stands for mcp_\w+)
ToolTokens == {"read_file", "write_file", "edit", "ls", "grep", "shell",
               "web_fetch", "web_search", "glob", "mcp_x"}

\* content.match(toolPattern) || []
RECURSIVE extractToolsFromContent(_)
extractToolsFromContent(content) ==
    IF content = << >> THEN << >>
    ELSE (IF Head(content) \in ToolTokens THEN << Head(content) >> ELSE << >>)
         \o extractToolsFromContent(Tail(content))

\* intersection.length / union.length > 0.8, in whole numbers
calculateSimilarity(text1, text2) ==
    [intersection |-> Cardinality({k \in 1..Len(text1) : text1[k] \in Range(text2)}),
     union |-> Cardinality(Range(text1) \cup Range(text2))]

SimilarityAbove80(similarity) ==
    10 * similarity.intersection > 8 * similarity.union

\* text.includes(part), for a part made of whole words
IncludesWords(text, part) ==
    \E i \in 1..(Len(text) - Len(part) + 1) : SubSeq(text, i, i + Len(part) - 1) = part

\* A ReasoningStep.  id: the k of 'step-k'; confidence in hundredths;
\* evidence, assumptions: the lengths of the two lists; issuesNoted: the last
\* evidence entry is the text of the validation issues
MkReasoningStep(id, type, content, confidence, evidence, assumptions, status) ==
    [id |-> id, type |-> type, content |-> content, confidence |-> confidence,
     evidence |-> evidence, assumptions |-> assumptions, issuesNoted |-> FALSE,
     validationStatus |-> status]

MkReasoningIssue(type, severity, stepId) ==
    [type |-> type, severity |-> severity, stepId |-> stepId]

\* the step a rule calls the previous one: chain.steps[chain.steps.length - 2]
PreviousStepOf(chain) == chain.steps[Len(chain.steps) - 1]

EvidenceValidationRule(step, chain) ==
    IF step.type = "conclusion" /\ step.evidence = 0
    THEN << MkReasoningIssue("missing_evidence", "high", step.id) >>
    ELSE << >>

\* the assumption threshold of AssumptionValidationRule
MaxAssumptions == 3

AssumptionValidationRule(step, chain) ==
    IF step.assumptions > MaxAssumptions
    THEN << MkReasoningIssue("weak_assumption", "medium", step.id) >>
    ELSE << >>

StepConsistencyRule(step, chain) ==
    IF Len(chain.steps) > 1 /\ PreviousStepOf(chain).type = "conclusion"
       /\ step.type = "hypothesis"
    THEN << MkReasoningIssue("logical_inconsistency", "medium", step.id) >>
    ELSE << >>

RECURSIVE ConstraintIssues(_, _, _)
ConstraintIssues(step, constraints, k) ==
    IF k > Len(constraints) THEN << >>
    ELSE (IF IncludesWords(step.content, constraints[k])
          THEN << MkReasoningIssue("constraint_violation", "high", step.id) >>
          ELSE << >>)
         \o ConstraintIssues(step, constraints, k + 1)

ConstraintValidationRule(step, chain) ==
    ConstraintIssues(step, chain.context.constraints, 1)

RECURSIVE StepToolIssues(_, _, _, _)
StepToolIssues(step, toolsInContent, availableTools, k) ==
    IF k > Len(toolsInContent) THEN << >>
    ELSE (IF ~Contains(availableTools, toolsInContent[k])
          THEN << MkReasoningIssue("tool_availability", "high", step.id) >>
          ELSE << >>)
         \o StepToolIssues(step, toolsInContent, availableTools, k + 1)

\* the loop runs over chain.steps but for the last one
hasCircularReasoning(step, chain) ==
    \E i \in 1..(Len(chain.steps) - 1) :
        SimilarityAbove80(calculateSimilarity(step.content, chain.steps[i].content))

\* calculateValidationConfidence, in hundredths
RECURSIVE IssuePenalties(_, _)
IssuePenalties(issues, k) ==
    IF k > Len(issues) THEN 0
    ELSE SeverityWeight(issues[k].severity) + IssuePenalties(issues, k + 1)

calculateValidationConfidence(issues) ==
    IF 100 - IssuePenalties(issues, 1) > 0 THEN 100 - IssuePenalties(issues, 1) ELSE 0

\* variant: only a critical issue makes a step invalid
NoSevereIssue_CriticalOnly(issues) ==
    \A k \in 1..Len(issues) : issues[k].severity # "critical"

\* criticalIssues.length === 0 && highIssues.length === 0
NoSevereIssue(issues) ==
    \A k \in 1..Len(issues) : issues[k].severity \notin {"critical", "high"}

validateReasoningStep(step, chain, reg) ==
    LET ruleIssues == EvidenceValidationRule(step, chain)
                      \o AssumptionValidationRule(step, chain)
                      \o StepConsistencyRule(step, chain)
                      \o ConstraintValidationRule(step, chain)
        toolIssues == IF step.type = "action"
                      THEN StepToolIssues(step, extractToolsFromContent(step.content),
                                          GetAllToolNames(reg), 1)
                      ELSE << >>
        circular == IF hasCircularReasoning(step, chain)
                    THEN << MkReasoningIssue("circular_reasoning", "high", step.id) >>
                    ELSE << >>
        issues == ruleIssues \o toolIssues \o circular
    IN  [isValid |-> NoSevereIssue(issues),
         confidence |-> calculateValidationConfidence(issues),
         issues |-> issues]

isLogicallyConsistent(prevStep, currentStep) ==
    \/ prevStep.type = "hypothesis" /\ currentStep.type = "verification"
    \/ prevStep.type = "observation" /\ currentStep.type = "hypothesis"
    \/ prevStep.type = "verification" /\ currentStep.type = "conclusion"

\* variant: the confidence is not capped
ClampConfidence_NoCap(confidence) == confidence

\* Math.min(confidence, 1.0)
ClampConfidence(confidence) == IF confidence < 100 THEN confidence ELSE 100

\* variant: a step without assumptions earns nothing
AssumptionTerm_NoBonus(assumptions) ==
    IF assumptions = 0 THEN 0
    ELSE -(IF assumptions * 5 < 20 THEN assumptions * 5 ELSE 20)

\* the assumption branch of calculateStepConfidence
AssumptionTerm(assumptions) ==
    IF assumptions = 0 THEN 10
    ELSE -(IF assumptions * 5 < 20 THEN assumptions * 5 ELSE 20)

\* in hundredths; the step is not in chain.steps yet when this is computed
calculateStepConfidence(step, chain) ==
    LET c1 == 50 + (IF step.evidence > 0
                    THEN (IF step.evidence * 10 < 30 THEN step.evidence * 10 ELSE 30)
                    ELSE 0)
        c2 == c1 + AssumptionTerm(step.assumptions)
        c3 == c2 + (CASE step.type = "observation" -> 10
                      [] step.type = "verification" -> 20
                      [] step.type = "conclusion" -> 10
                      [] OTHER -> 0)
        c4 == c3 + (IF Len(chain.steps) > 1
                       /\ isLogicallyConsistent(PreviousStepOf(chain), step)
                    THEN 10 ELSE 0)
    IN  ClampConfidence(c4)

\* a number that is not one: 0 / 0
NaN == [num |-> 0, den |-> 0]

\* variant: rejected steps cost nothing
calculateOverallConfidence_NoPenalty(chain) ==
    LET validSteps == {k \in 1..Len(chain.steps) :
                          chain.steps[k].validationStatus = "validated"}
        sum[S \in SUBSET validSteps] ==
            IF S = {} THEN 0
            ELSE LET k == CHOOSE x \in S : TRUE
                 IN  chain.steps[k].confidence + sum[S \ {k}]
    IN  [num |-> sum[validSteps], den |-> Cardinality(validSteps)]

\* the value num / den, in hundredths
calculateOverallConfidence(chain) ==
    LET validSteps == {k \in 1..Len(chain.steps) :
                          chain.steps[k].validationStatus = "validated"}
        rejectedSteps == {k \in 1..Len(chain.steps) :
                             chain.steps[k].validationStatus = "rejected"}
        sum[S \in SUBSET validSteps] ==
            IF S = {} THEN 0
            ELSE LET k == CHOOSE x \in S : TRUE
                 IN  chain.steps[k].confidence + sum[S \ {k}]
        num == sum[validSteps]
                 - 10 * Cardinality(rejectedSteps) * Cardinality(validSteps)
    IN  IF Len(chain.steps) = 0 THEN [num |-> 0, den |-> 1]
        ELSE IF validSteps = {} THEN NaN
        ELSE [num |-> IF num > 0 THEN num ELSE 0, den |-> Cardinality(validSteps)]

\* variant: the id is taken from the index of the last step
PendingStep_IdOfLast(chain, stepType, content, evidence, assumptions) ==
    LET step0 == MkReasoningStep(Len(chain.steps) - 1, stepType, content, 0,
                                 evidence, assumptions, "pending")
    IN  [step0 EXCEPT !.confidence = calculateStepConfidence(step0, chain)]

\* the step addReasoningStep builds, with its confidence, before validation
PendingStep(chain, stepType, content, evidence, assumptions) ==
    LET step0 == MkReasoningStep(Len(chain.steps), stepType, content, 0,
                                 evidence, assumptions, "pending")
    IN  [step0 EXCEPT !.confidence = calculateStepConfidence(step0, chain)]

\* the chain after addReasoningStep on it
ChainWithStep(chain, stepType, content, evidence, assumptions, reg) ==
    LET step1 == PendingStep(chain, stepType, content, evidence, assumptions)
        validation == validateReasoningStep(step1, chain, reg)
        step == IF validation.isValid
                THEN [step1 EXCEPT !.validationStatus = "validated"]
                ELSE [step1 EXCEPT !.validationStatus = "rejected",
                                   !.evidence = @ + 1, !.issuesNoted = TRUE]
        pushed == [chain EXCEPT !.steps = Append(@, step),
                                !.currentStep = Len(chain.steps)]
    IN  [pushed EXCEPT !.overallConfidence = calculateOverallConfidence(pushed)]

\* the words of 'Starting reasoning for goal: ' and of the other fixed texts
StartingWords == << "starting", "reasoning", "for", "goal:" >>
DecisionPointWords == << "decision", "point:" >>
DecisionMadeWords == << "decision", "made:" >>
DefaultRationaleWords == << "selected", "based", "on", "highest", "feasibility", "score" >>

\* the fields of a ReasoningContext the engine reads
MkContext(availableTools, constraints) ==
    [availableTools |-> availableTools, constraints |-> constraints]

\* the chain startReasoning stores under a fresh id
NewChain(id, goal, context) ==
    LET initialStep == MkReasoningStep(0, "observation", StartingWords \o goal,
                                       90, 1, 0, "validated")
    IN  [id |-> id, goal |-> goal, steps |-> << initialStep >>,
         currentStep |-> 0, overallConfidence |-> [num |-> 0, den |-> 1],
         status |-> "active", context |-> context]

StartReasoning(goal, context) ==
    /\ nextChainId <= MaxChains
    /\ activeChains' = [activeChains EXCEPT
                           ![nextChainId] = NewChain(nextChainId, goal, context)]
    /\ nextChainId' = nextChainId + 1
    /\ lastCall' = [op |-> "startReasoning", threw |-> "none",
                    chainId |-> nextChainId]
    /\ UNCHANGED << registry, plannerVars, execVars, validatorVars, agentVars >>

\* the steps of a chain are bounded: a call that would add a step to a chain
\* of MaxChainSteps steps is left out
CanGrow(chainId) ==
    activeChains[chainId] # NoChain =>
        Len(activeChains[chainId].steps) < MaxChainSteps

\* variant: a call that finds no chain returns nothing, without an error
ChainNotFound_Silent(op, chainId) ==
    /\ lastCall' = [op |-> op, threw |-> "none", chainId |-> chainId]
    /\ UNCHANGED << activeChains, nextChainId >>

\* a call that found no chain of this id
ChainNotFound(op, chainId) ==
    /\ lastCall' = [op |-> op, threw |-> "not-found", chainId |-> chainId]
    /\ UNCHANGED << activeChains, nextChainId >>

\* the rules wait for nothing, so the call runs to its end before any other
AddReasoningStep(chainId, stepType, content, evidence, assumptions) ==
    /\ CanGrow(chainId)
    /\ LET chain == activeChains[chainId]
       IN  IF chain = NoChain THEN ChainNotFound("addReasoningStep", chainId)
           ELSE /\ activeChains' =
                     [activeChains EXCEPT ![chainId] =
                        ChainWithStep(chain, stepType, content, evidence,
                                      assumptions, registry)]
                /\ lastCall' = [op |-> "addReasoningStep", threw |-> "none",
                                chainId |-> chainId, stepType |-> stepType,
                                content |-> content,
                                evidence |-> evidence, assumptions |-> assumptions,
                                issues |-> validateReasoningStep(
                                    PendingStep(chain, stepType, content, evidence,
                                                assumptions),
                                    chain, registry).issues]
                /\ UNCHANGED nextChainId
    /\ UNCHANGED << registry, plannerVars, execVars, validatorVars, agentVars >>

\* A DecisionOption.  pros, cons: the lengths of the two lists; the
\* feasibility score in hundredths
MkOption(id, description, pros, cons, riskLevel, requiredTools) ==
    [id |-> id, description |-> description, pros |-> pros, cons |-> cons,
     riskLevel |-> riskLevel, requiredTools |-> requiredTools,
     feasibilityScore |-> 0]

calculateFeasibilityScore(option, reg) ==
    LET availableTools == GetAllToolNames(reg)
        toolsAvailable == \A k \in 1..Len(option.requiredTools) :
                              Contains(availableTools, option.requiredTools[k])
        s1 == 50 + (IF toolsAvailable THEN 30 ELSE -20)
        s2 == s1 + (CASE option.riskLevel = "low" -> 20
                      [] option.riskLevel = "high" -> -10
                      [] OTHER -> 0)
        s3 == s2 + (IF option.pros > option.cons THEN 10
                    ELSE IF option.cons > option.pros THEN -10 ELSE 0)
        low == IF s3 > 0 THEN s3 ELSE 0
    IN  IF low < 100 THEN low ELSE 100

\* variant: lowest score first
RECURSIVE InsertOption_Ascending(_, _)
InsertOption_Ascending(sorted, option) ==
    IF sorted = << >> THEN << option >>
    ELSE IF Head(sorted).feasibilityScore <= option.feasibilityScore
         THEN << Head(sorted) >> \o InsertOption_Ascending(Tail(sorted), option)
         ELSE << option >> \o sorted

\* options.sort((a, b) => b.feasibilityScore - a.feasibilityScore): stable,
\* highest score first
RECURSIVE InsertOption(_, _)
InsertOption(sorted, option) ==
    IF sorted = << >> THEN << option >>
    ELSE IF Head(sorted).feasibilityScore >= option.feasibilityScore
         THEN << Head(sorted) >> \o InsertOption(Tail(sorted), option)
         ELSE << option >> \o sorted

RECURSIVE SortOptions(_, _)
SortOptions(options, k) ==
    IF k = 0 THEN << >>
    ELSE InsertOption(SortOptions(options, k - 1), options[k])

ScoredOptions(options, reg) ==
    LET scored == [k \in 1..Len(options) |->
                     [options[k] EXCEPT
                        !.feasibilityScore = calculateFeasibilityScore(options[k], reg)]]
    IN  SortOptions(scored, Len(scored))

MkDecisionPoint(question, options) ==
    [question |-> question, options |-> options, selectedOption |-> "",
     rationale |-> << >>, confidence |-> 0]

CreateDecisionPoint(chainId, question, options) ==
    /\ CanGrow(chainId)
    /\ LET chain == activeChains[chainId]
           decisionPoint == MkDecisionPoint(question, ScoredOptions(options, registry))
       IN  IF chain = NoChain THEN ChainNotFound("createDecisionPoint", chainId)
           ELSE /\ activeChains' =
                     [activeChains EXCEPT ![chainId] =
                        ChainWithStep(chain, "action", DecisionPointWords \o question,
                                      1, 1, registry)]
                /\ lastCall' = [op |-> "createDecisionPoint", threw |-> "none",
                                chainId |-> chainId, returned |-> decisionPoint]
                /\ UNCHANGED nextChainId
    /\ UNCHANGED << registry, plannerVars, execVars, validatorVars, agentVars >>

\* decisionPoint.options[0] is read, and the decision point written, before
\* the chain is looked up
\* rationale: << >> if the caller gives none
MakeDecision(chainId, decisionPoint, rationale) ==
    /\ CanGrow(chainId)
    /\ LET chain == activeChains[chainId]
       IN  IF Len(decisionPoint.options) = 0
           THEN /\ lastCall' = [op |-> "makeDecision", threw |-> "type-error",
                                chainId |-> chainId, decisionPoint |-> decisionPoint]
                /\ UNCHANGED << activeChains, nextChainId >>
           ELSE LET selectedOption == decisionPoint.options[1]
                    decided == [decisionPoint EXCEPT
                                  !.selectedOption = selectedOption.id,
                                  !.rationale = IF rationale # << >> THEN rationale
                                               ELSE DefaultRationaleWords,
                                  !.confidence = selectedOption.feasibilityScore]
                IN  IF chain = NoChain
                    THEN /\ lastCall' = [op |-> "makeDecision", threw |-> "not-found",
                                         chainId |-> chainId, decisionPoint |-> decided]
                         /\ UNCHANGED << activeChains, nextChainId >>
                    ELSE /\ activeChains' =
                              [activeChains EXCEPT ![chainId] =
                                 ChainWithStep(chain, "conclusion",
                                               DecisionMadeWords \o selectedOption.description,
                                               2, 1, registry)]
                         /\ lastCall' = [op |-> "makeDecision", threw |-> "none",
                                         chainId |-> chainId, decisionPoint |-> decided,
                                         returned |-> selectedOption]
                         /\ UNCHANGED nextChainId
    /\ UNCHANGED << registry, plannerVars, execVars, validatorVars, agentVars >>

CompleteReasoning(chainId, finalConclusion) ==
    /\ CanGrow(chainId)
    /\ LET chain == activeChains[chainId]
       IN  IF chain = NoChain THEN ChainNotFound("completeReasoning", chainId)
           ELSE /\ activeChains' =
                     [activeChains EXCEPT ![chainId] =
                        [ChainWithStep(chain, "conclusion", finalConclusion, 1, 1,
                                       registry)
                         EXCEPT !.status = "completed"]]
                /\ lastCall' = [op |-> "completeReasoning", threw |-> "none",
                                chainId |-> chainId]
                /\ UNCHANGED nextChainId
    /\ UNCHANGED << registry, plannerVars, execVars, validatorVars, agentVars >>

RECURSIVE StepIssues(_, _, _)
StepIssues(chain, reg, k) ==
    IF k > Len(chain.steps) THEN << >>
    ELSE validateReasoningStep(chain.steps[k], chain, reg).issues
         \o StepIssues(chain, reg, k + 1)

\* a chain of fewer steps than this is too short
MinChainSteps == 3

\* stands for the stepId 'chain' of an issue about the whole chain
ChainStepId == -1

validateChain(chain, reg) ==
    LET tooShort == IF Len(chain.steps) < MinChainSteps
                    THEN << MkReasoningIssue("logical_inconsistency", "medium", ChainStepId) >>
                    ELSE << >>
        noConclusion == IF \A k \in 1..Len(chain.steps) :
                               chain.steps[k].type # "conclusion"
                        THEN << MkReasoningIssue("logical_inconsistency", "high", ChainStepId) >>
                        ELSE << >>
        allIssues == StepIssues(chain, reg, 1) \o tooShort \o noConclusion
    IN  [isValid |-> \A k \in 1..Len(allIssues) :
                        allIssues[k].severity \notin {"critical", "high"},
         confidence |-> chain.overallConfidence,
         issues |-> allIssues]

ValidateChain(chainId) ==
    /\ LET chain == activeChains[chainId]
       IN  IF chain = NoChain THEN ChainNotFound("validateChain", chainId)
           ELSE /\ lastCall' = [op |-> "validateChain", threw |-> "none",
                                chainId |-> chainId,
                                returned |-> validateChain(chain, registry)]
                /\ UNCHANGED << activeChains, nextChainId >>
    /\ UNCHANGED << registry, plannerVars, execVars, validatorVars, agentVars >>

DeleteChain(chainId) ==
    /\ activeChains' = [activeChains EXCEPT ![chainId] = NoChain]
    /\ lastCall' = [op |-> "deleteChain", threw |-> "none", chainId |-> chainId,
                    returned |-> activeChains[chainId] # NoChain]
    /\ UNCHANGED << nextChainId, registry, plannerVars, execVars, validatorVars, agentVars >>

pauseChain(chainId) ==
    /\ LET chain == activeChains[chainId]
       IN  IF chain # NoChain
           THEN /\ activeChains' = [activeChains EXCEPT ![chainId].status = "paused"]
                /\ lastCall' = [op |-> "pauseChain", threw |-> "none",
                                chainId |-> chainId, returned |-> TRUE]
           ELSE /\ lastCall' = [op |-> "pauseChain", threw |-> "none",
                                chainId |-> chainId, returned |-> FALSE]
                /\ UNCHANGED activeChains
    /\ UNCHANGED << nextChainId, registry, plannerVars, execVars, validatorVars, agentVars >>

resumeChain(chainId) ==
    /\ LET chain == activeChains[chainId]
       IN  IF chain # NoChain /\ chain.status = "paused"
           THEN /\ activeChains' = [activeChains EXCEPT ![chainId].status = "active"]
                /\ lastCall' = [op |-> "resumeChain", threw |-> "none",
                                chainId |-> chainId, returned |-> TRUE]
           ELSE /\ lastCall' = [op |-> "resumeChain", threw |-> "none",
                                chainId |-> chainId, returned |-> FALSE]
                /\ UNCHANGED activeChains
    /\ UNCHANGED << nextChainId, registry, plannerVars, execVars, validatorVars, agentVars >>



----------------------------------------------------------------------------
(* The tool availability verifier (ToolAvailabilityVerifier) *)

\* private readonly CACHE_TTL_MS = 5 * 60 * 1000
CACHE_TTL_MS == 5 * 60 * 1000

\* the clock is read at the calls; between two calls it advances by this much
TickMs == 2 * 60 * 1000

\* the clock advances at most this many times in a behaviour
MaxTicks == 3

\* the full options of a verifyTool call that passes none, and of the calls
\* verifyAllTools makes for startSession; the other fields are the defaults
\* in both
VerifyToolOptions == [testExecution |-> FALSE, timeoutMs |-> 10000]
VerifyAllOptions == [testExecution |-> FALSE, timeoutMs |-> 30000]
OptionSets == {VerifyToolOptions, VerifyAllOptions}

\* `${toolName}_${JSON.stringify(fullOptions)}`
cacheKey(toolName, fullOptions) == << toolName, fullOptions >>

CacheKeys == {cacheKey(t, o) : t \in Tools, o \in OptionSets}

\* verificationCache.get(key) of a key that was never set
NoVerification == [tool |-> ""]

\* A ToolVerificationResult.  The tools of the registry are built-in tools, so
\* a registered tool is available.  cachedAt is history: the reading of the
\* clock when the result was built; the result itself carries no time.
MkVerification(toolName, available, error, cachedAt) ==
    [tool |-> toolName, available |-> available, error |-> error,
     cachedAt |-> cachedAt]

\* return Date.now() - this.CACHE_TTL_MS < Date.now(); t is the first reading
\* of the clock and the second is not earlier; the result is not consulted
isCacheValid(result, t) == t - CACHE_TTL_MS < t

\* verifyTool(toolName, options) at time t: the result it returns and the
\* cache it leaves
verifyTool(cache, reg, toolName, fullOptions, t) ==
    LET key == cacheKey(toolName, fullOptions)
        cached == cache[key]
        fresh == IF GetTool(reg, toolName)
                 THEN MkVerification(toolName, TRUE, "none", t)
                 ELSE MkVerification(toolName, FALSE, "Tool not found in registry", t)
    IN  IF cached # NoVerification /\ isCacheValid(cached, t)
        THEN [result |-> cached, cache |-> cache, hit |-> TRUE]
        ELSE [result |-> fresh, cache |-> [cache EXCEPT ![key] = fresh],
              hit |-> FALSE]

\* the loop of verifyAllTools over toolRegistry.getAllTools()
RECURSIVE VerifyEach(_, _, _, _, _)
VerifyEach(names, cache, reg, t, acc) ==
    IF names = << >> THEN [verificationResults |-> acc, cache |-> cache]
    ELSE LET v == verifyTool(cache, reg, Head(names), VerifyAllOptions, t)
         IN  VerifyEach(Tail(names), v.cache, reg, t, Append(acc, v.result))

\* availabilityRatio < 0.5 and < 0.8 in whole numbers; no tool of the registry
\* is an MCP tool, so mcpStatuses is empty
calculateSystemHealth(availableTools, totalTools) ==
    IF totalTools = 0 THEN "critical"
    ELSE IF 10 * availableTools < 5 * totalTools THEN "critical"
    ELSE IF 10 * availableTools < 8 * totalTools THEN "degraded"
    ELSE "healthy"

\* the tools of the results that are available, in order
RECURSIVE AvailableOf(_)
AvailableOf(verificationResults) ==
    IF verificationResults = << >> THEN << >>
    ELSE (IF Head(verificationResults).available
          THEN << Head(verificationResults).tool >> ELSE << >>)
         \o AvailableOf(Tail(verificationResults))

\* verifyAllTools(options) at time t: its report and the cache it leaves
verifyAllTools(cache, reg, t) ==
    LET v == VerifyEach(GetAllToolNames(reg), cache, reg, t, << >>)
        availableTools == Len(AvailableOf(v.verificationResults))
        totalTools == Len(v.verificationResults)
    IN  [verificationResults |-> v.verificationResults,
         systemHealth |-> calculateSystemHealth(availableTools, totalTools),
         cache |-> v.cache]

\* a call verifyTool(toolName) with no options
VerifyTool(toolName) ==
    /\ LET key == cacheKey(toolName, VerifyToolOptions)
           v == verifyTool(verificationCache, registry, toolName,
                           VerifyToolOptions, now)
       IN  /\ verificationCache' = v.cache
           /\ lastCall' = [op |-> "verifyTool", threw |-> "none",
                           tool |-> toolName, result |-> v.result,
                           hit |-> v.hit, at |-> now,
                           registered |-> GetTool(registry, toolName)]
    /\ UNCHANGED << registry, plannerVars, execVars, validatorVars,
                    reasoningVars, sessionVars, now >>

\* clearCache()
clearCache ==
    /\ verificationCache' = [k \in CacheKeys |-> NoVerification]
    /\ lastCall' = [op |-> "clearCache", threw |-> "none"]
    /\ UNCHANGED << registry, plannerVars, execVars, validatorVars,
                    reasoningVars, sessionVars, now >>

\* time passes between two calls
Tick ==
    /\ now < MaxTicks * TickMs
    /\ now' = now + TickMs
    /\ UNCHANGED << registry, plannerVars, execVars, validatorVars,
                    reasoningVars, sessionVars, verificationCache, lastCall >>

----------------------------------------------------------------------------
(* The agent system (EnhancedAgentSystem) *)

\* at most this many generateSessionId calls in a behaviour
MaxSessions == 1

SessionIds == 1..MaxSessions

\* a processMessage call that would add a response to a session of this many
\* responses is left out
MaxResponses == 1

NoSession == [id |-> 0]

\* no processMessage call is waiting for a response
NoMsgCall == [pc |-> "idle"]

\* the keywords of requiresPlanning and of requiresReasoning
PlanningKeywords ==
    {<< "p", "l", "a", "n" >>,
     << "s", "t", "r", "a", "t", "e", "g", "y" >>,
     << "o", "r", "g", "a", "n", "i", "z", "e" >>,
     << "i", "m", "p", "l", "e", "m", "e", "n", "t" >>,
     << "b", "u", "i", "l", "d" >>,
     << "c", "r", "e", "a", "t", "e" >>,
     << "d", "e", "v", "e", "l", "o", "p" >>}
ReasoningKeywords ==
    {<< "a", "n", "a", "l", "y", "z", "e" >>,
     << "e", "x", "p", "l", "a", "i", "n" >>,
     << "w", "h", "y" >>,
     << "h", "o", "w" >>,
     << "c", "o", "m", "p", "a", "r", "e" >>,
     << "d", "e", "c", "i", "d", "e" >>,
     << "r", "e", "c", "o", "m", "m", "e", "n", "d" >>}

\* planningKeywords.some(keyword => userGoal.toLowerCase().includes(keyword))
requiresPlanning(userGoal) ==
    \E keyword \in PlanningKeywords : Includes(toLowerCase(userGoal), keyword)

\* reasoningKeywords.some(keyword => userGoal.toLowerCase().includes(keyword))
requiresReasoning(userGoal) ==
    \E keyword \in ReasoningKeywords : Includes(toLowerCase(userGoal), keyword)

\* A user goal of a session: its text, the words of the text for the reasoning
\* engine, and the outcome of the planner's three keyword tests on the text.
SessionGoal(text, words, goal) == [text |-> text, words |-> words, goal |-> goal]

\* 'Create file', 'analyze code', 'how to build code', 'hello'
CreateFileGoal ==
    SessionGoal(<< "C", "r", "e", "a", "t", "e", " ", "f", "i", "l", "e" >>,
                << "create", "file" >>, MkGoal(TRUE, FALSE, FALSE))
AnalyzeCodeGoal ==
    SessionGoal(<< "a", "n", "a", "l", "y", "z", "e", " ", "c", "o", "d", "e" >>,
                << "analyze", "code" >>, MkGoal(FALSE, TRUE, TRUE))
BuildCodeGoal ==
    SessionGoal(<< "h", "o", "w", " ", "t", "o", " ", "b", "u", "i", "l", "d", " ", "c", "o", "d", "e" >>,
                << "how", "to", "build", "code" >>, MkGoal(FALSE, TRUE, FALSE))
HelloGoal ==
    SessionGoal(<< "h", "e", "l", "l", "o" >>,
                << "hello" >>, MkGoal(FALSE, FALSE, FALSE))

SessionGoals == {CreateFileGoal, AnalyzeCodeGoal, BuildCodeGoal, HelloGoal}

\* the options of startSession that decide its path, with their defaults
DefaultStartOptions ==
    [enableToolVerification |-> TRUE, enablePlanning |-> TRUE,
     enableReasoning |-> TRUE]

\* maxRetries: 3, the default of processMessage
DefaultMaxRetries == 3

\* the options of processMessage that decide its path, with their defaults
DefaultMessageOptions ==
    [maxRetries |-> DefaultMaxRetries, enableValidation |-> TRUE,
     enableReasoning |-> TRUE]

\* the session startSession builds; plan and reasoningChain hold the id of
\* the object, 0 while the field is not set
MkSession(id, userGoal, availableTools, planning, reasoning) ==
    [id |-> id, userGoal |-> userGoal, availableTools |-> availableTools,
     requiresPlanning |-> planning, requiresReasoning |-> reasoning,
     responses |-> << >>, status |-> "initializing", plan |-> 0,
     reasoningChain |-> 0]

\* getSession(sessionId): the id of the object it returns, 0 for undefined
getSession(active, sessionId) == IF sessionId \in active THEN sessionId ELSE 0

\* getActiveSessions(), as a set of objects
getActiveSessions(active, objects) == {objects[s] : s \in active}

\* getSessionHistory()
getSessionHistory(history, objects) == [k \in 1..Len(history) |-> objects[history[k]]]

\* the words of `Generated response: ${aiResponse.content.substring(0, 100)}...`
\* for the message 'hello', which asks for no tool
ResponseStepWords ==
    << "generated", "response:", "i'll", "help", "you", "with:", "hello",
       "let", "me", "gather", "the", "necessary", "information", "and",
       "provide", "you", "with", "a", "comprehens..." >>

\* A SessionResponse.  successful: validationResult.allowExecution; failed:
\* it is the response built after the loop.
MkSessionResponse(successful, failed) == [successful |-> successful, failed |-> failed]

\* await startSession(userGoal, options).  The awaits of the call wait for
\* nothing outside the system, so the call runs to its end before any other.
StartSession(userGoal, options) ==
    /\ nextSessionId <= MaxSessions
    /\ nextPlanId <= MaxPlans
    /\ nextChainId <= MaxChains
    /\ LET sessionId == nextSessionId
           verified == options.enableToolVerification
           report == verifyAllTools(verificationCache, registry, now)
           availableTools == IF verified
                             THEN AvailableOf(report.verificationResults)
                             ELSE GetAllToolNames(registry)
           planning == options.enablePlanning /\ requiresPlanning(userGoal.text)
           reasoning == options.enableReasoning /\ requiresReasoning(userGoal.text)
           session == MkSession(sessionId, userGoal, availableTools, planning,
                                reasoning)
           planTools == GetAllToolNames(registry)
           plan == MkPlan(nextPlanId, userGoal.goal,
                          decomposeGoal(userGoal.goal, planTools), planTools)
           validation == validatePlan(plan, registry)
           context == MkContext(availableTools, << >>)
       IN  /\ nextSessionId' = nextSessionId + 1
           /\ verificationCache' = IF verified THEN report.cache
                                   ELSE verificationCache
           /\ IF verified /\ report.systemHealth = "critical"
              THEN \* thrown before the session object is built
                   /\ lastCall' = [op |-> "startSession", threw |-> "critical",
                                   sessionId |-> sessionId]
                   /\ UNCHANGED << sessionObjects, activeSessions, activePlans,
                                   nextPlanId, activeChains, nextChainId >>
              ELSE IF planning /\ CreateThrows(validation)
              THEN \* activeSessions.set came first; createPlan throws
                   /\ sessionObjects' = [sessionObjects EXCEPT ![sessionId] =
                                            [session EXCEPT !.status = "planning"]]
                   /\ activeSessions' = activeSessions \cup {sessionId}
                   /\ activePlans' = PlansAfterCreate(activePlans, plan, validation)
                   /\ nextPlanId' = nextPlanId + 1
                   /\ lastCall' = [op |-> "startSession", threw |-> "invalid-plan",
                                   sessionId |-> sessionId]
                   /\ UNCHANGED << activeChains, nextChainId >>
              ELSE /\ sessionObjects' = [sessionObjects EXCEPT ![sessionId] =
                          [session EXCEPT
                             !.status = "executing",
                             !.plan = IF planning THEN nextPlanId ELSE 0,
                             !.reasoningChain = IF reasoning THEN nextChainId ELSE 0]]
                   /\ activeSessions' = activeSessions \cup {sessionId}
                   /\ IF planning
                      THEN /\ activePlans' = PlansAfterCreate(activePlans, plan,
                                                              validation)
                           /\ nextPlanId' = nextPlanId + 1
                      ELSE UNCHANGED << activePlans, nextPlanId >>
                   /\ IF reasoning
                      THEN /\ activeChains' = [activeChains EXCEPT ![nextChainId] =
                                 NewChain(nextChainId, userGoal.words, context)]
                           /\ nextChainId' = nextChainId + 1
                      ELSE UNCHANGED << activeChains, nextChainId >>
                   /\ lastCall' = [op |-> "startSession", threw |-> "none",
                                   sessionId |-> sessionId]
    /\ UNCHANGED << registry, executionResults, held, execVars, validatorVars,
                    sessionHistory, msgCall, now >>

\* the session with the response built after the loop: responses.push and
\* status = 'failed'
WithFailedResponse(session) ==
    [session EXCEPT !.responses = Append(@, MkSessionResponse(FALSE, TRUE)),
                    !.status = "failed"]

\* the session with the response of an attempt: responses.push
WithResponse(session, allowExecution) ==
    [session EXCEPT !.responses = Append(@, MkSessionResponse(allowExecution, FALSE))]

\* what a completed processMessage call leaves in lastCall; attempts: the
\* value of attempt when it returned
MessageReturned(sessionId, options, attempts, successful, failed) ==
    [op |-> "processMessage", threw |-> "none", sessionId |-> sessionId,
     maxRetries |-> options.maxRetries, attempts |-> attempts,
     successful |-> successful, failed |-> failed]

\* processMessage(sessionId, 'hello', options) up to the first await: the
\* lookup, and the loop entered or skipped.  The call is split where it waits
\* for the response of the model; other calls can run while it waits.
ProcessBegin(sessionId, options) ==
    /\ msgCall = NoMsgCall
    /\ IF sessionId \notin activeSessions
       THEN /\ lastCall' = [op |-> "processMessage", threw |-> "not-found",
                            sessionId |-> sessionId]
            /\ UNCHANGED << sessionObjects, msgCall >>
       ELSE /\ Len(sessionObjects[sessionId].responses) < MaxResponses
            /\ sessionObjects[sessionId].reasoningChain # 0 =>
                 CanGrow(sessionObjects[sessionId].reasoningChain)
            /\ IF 0 < options.maxRetries
               THEN /\ msgCall' = [pc |-> "attempt", sessionId |-> sessionId,
                                   attempt |-> 1, options |-> options]
                    /\ lastCall' = NoCall
                    /\ UNCHANGED sessionObjects
               ELSE /\ sessionObjects' = [sessionObjects EXCEPT ![sessionId] =
                                             WithFailedResponse(@)]
                    /\ lastCall' = MessageReturned(sessionId, options, 0, FALSE, TRUE)
                    /\ UNCHANGED msgCall
    /\ UNCHANGED << registry, plannerVars, execVars, validatorVars, reasoningVars,
                    activeSessions, sessionHistory, nextSessionId, verifierVars >>

\* what an attempt comes to: the response is allowed to execute, validation
\* does not allow it, or the attempt throws before a response is recorded
\* (the response of the model is not the system's to decide)
AttemptOutcomes == {"allowed", "rejected", "threw"}

\* variant: a response that is not allowed to execute is recorded at once
RetriesRejected_Never(outcome, attempt, maxRetries) == FALSE

\* if (!validationResult.allowExecution && attempt < fullOptions.maxRetries) continue
RetriesRejected(outcome, attempt, maxRetries) ==
    outcome = "rejected" /\ attempt < maxRetries

\* if (attempt >= fullOptions.maxRetries) break, and the loop's own test
GivesUp(attempt, maxRetries) == attempt >= maxRetries

\* the rest of one iteration of the loop, from the response of the model on,
\* and the code after the loop if the loop is left
ProcessAttempt(outcome) ==
    /\ msgCall # NoMsgCall
    /\ LET sessionId == msgCall.sessionId
           session == sessionObjects[sessionId]
           options == msgCall.options
           attempt == msgCall.attempt
           chainId == session.reasoningChain
           addsStep == chainId # 0 /\ options.enableReasoning
           \* addReasoningStep throws if the engine has no chain of this id
           throws == \/ outcome = "threw"
                     \/ /\ addsStep
                        /\ ~RetriesRejected(outcome, attempt, options.maxRetries)
                        /\ activeChains[chainId] = NoChain
       IN  /\ outcome = "rejected" => options.enableValidation
           /\ IF throws
              THEN IF GivesUp(attempt, options.maxRetries)
                   THEN /\ sessionObjects' = [sessionObjects EXCEPT ![sessionId] =
                                                 WithFailedResponse(@)]
                        /\ msgCall' = NoMsgCall
                        /\ lastCall' = MessageReturned(sessionId, options, attempt,
                                                       FALSE, TRUE)
                        /\ UNCHANGED activeChains
                   ELSE /\ msgCall' = [msgCall EXCEPT !.attempt = @ + 1]
                        /\ lastCall' = NoCall
                        /\ UNCHANGED << sessionObjects, activeChains >>
              ELSE IF RetriesRejected(outcome, attempt, options.maxRetries)
              THEN /\ msgCall' = [msgCall EXCEPT !.attempt = @ + 1]
                   /\ lastCall' = NoCall
                   /\ UNCHANGED << sessionObjects, activeChains >>
              ELSE /\ activeChains' =
                        IF addsStep
                        THEN [activeChains EXCEPT ![chainId] =
                                 ChainWithStep(@, "action", ResponseStepWords, 1, 1,
                                               registry)]
                        ELSE activeChains
                   /\ sessionObjects' = [sessionObjects EXCEPT ![sessionId] =
                                            WithResponse(@, outcome = "allowed")]
                   /\ msgCall' = NoMsgCall
                   /\ lastCall' = MessageReturned(sessionId, options, attempt,
                                                  outcome = "allowed", FALSE)
    /\ UNCHANGED << registry, plannerVars, execVars, validatorVars, nextChainId,
                    activeSessions, sessionHistory, nextSessionId, verifierVars >>

\* variant: the session stays in the map when it is moved to the history
ActiveAfterComplete_Kept(active, sessionId) == active

\* this.activeSessions.delete(sessionId)
ActiveAfterComplete(active, sessionId) == active \ {sessionId}

\* completeSession(sessionId); nothing is awaited in its body
CompleteSession(sessionId) ==
    /\ IF sessionId \notin activeSessions
       THEN /\ lastCall' = [op |-> "completeSession", threw |-> "not-found",
                            sessionId |-> sessionId]
            /\ UNCHANGED << sessionObjects, activeSessions, sessionHistory >>
       ELSE /\ sessionObjects' = [sessionObjects EXCEPT
                                     ![sessionId].status = "completed"]
            /\ sessionHistory' = Append(sessionHistory, sessionId)
            /\ activeSessions' = ActiveAfterComplete(activeSessions, sessionId)
            /\ lastCall' = [op |-> "completeSession", threw |-> "none",
                            sessionId |-> sessionId]
    /\ UNCHANGED << registry, plannerVars, execVars, validatorVars, reasoningVars,
                    nextSessionId, msgCall, verifierVars >>

----------------------------------------------------------------------------
(* The engines right after their construction *)

IdleValidator == validationRules = DefaultRules

IdleReasoning ==
    /\ activeChains = [c \in ChainIds |-> NoChain]
    /\ nextChainId = 1

IdleVerifier ==
    /\ verificationCache = [k \in CacheKeys |-> NoVerification]
    /\ now = 0

IdleAgent ==
    /\ sessionObjects = [s \in SessionIds |-> NoSession]
    /\ activeSessions = {}
    /\ sessionHistory = << >>
    /\ nextSessionId = 1
    /\ msgCall = NoMsgCall
    /\ IdleVerifier


----------------------------------------------------------------------------
(* Specification of the plan store *)

Registries == {reg \in SUBSET Tools : Tools \ Removable \subseteq reg}

IdleExec ==
    /\ pc = "idle"
    /\ execPlanId = 0
    /\ sortedSteps = << >>
    /\ cursor = 1
    /\ results = << >>
    /\ invoked = << >>

Init ==
    /\ IdleAgent
    /\ registry \in Registries
    /\ activePlans = [p \in PlanIds |-> NoPlan]
    /\ executionResults = [p \in PlanIds |-> NoResults]
    /\ nextPlanId = 1
    /\ held = NoPlan
    /\ IdleExec
    /\ IdleValidator
    /\ IdleReasoning
    /\ lastCall = NoCall

Next ==
    \/ \E goal \in Goals : CreatePlan(goal)
    \/ \E planId \in PlanIds : ValidateStored(planId)
    \/ \E planId \in PlanIds : DeletePlan(planId)
    \/ \E t \in Tools : RegisterTool(t)
    \/ \E t \in Tools : UnregisterTool(t)

Spec == Init /\ [][Next]_vars

----------------------------------------------------------------------------
(* Specification of validatePlan over hand-built plans *)

\* plans whose step ids (repeated or not) and dependencies are arbitrary
GraphStep(c) == MkStep(c[1], "analysis", FilterIn(StepOrder, c[2]), "low",
                       << >>, TRUE, TRUE)

GraphChoices == StepIds \X SUBSET StepIds

GraphPlan(n, f) ==
    MkPlan(1, MkGoal(FALSE, FALSE, FALSE), [k \in 1..n |-> GraphStep(f[k])],
           GetAllToolNames(Tools))

\* plans of independent steps whose complexity, required tools and validation
\* criteria are arbitrary; long enough to exceed the high-complexity threshold
AttrStep(k, c) == MkStep(ToString(k), "tool_call", << >>, c[1], c[2], c[3], TRUE)

AttrChoices == {"low", "high"} \X {<< >>, << "grep" >>} \X BOOLEAN

AttrPlan(n, f) ==
    MkPlan(1, MkGoal(FALSE, FALSE, FALSE), [k \in 1..n |-> AttrStep(k, f[k])],
           GetAllToolNames(Tools))

InitValidate ==
    /\ IdleAgent
    /\ \/ /\ registry = Tools
          /\ \E n \in 1..MaxSteps : \E f \in [1..n -> GraphChoices] :
                held = GraphPlan(n, f)
       \/ /\ registry \in Registries
          /\ \E n \in 1..(MaxHighComplexity + 1) : \E f \in [1..n -> AttrChoices] :
                held = AttrPlan(n, f)
    /\ activePlans = [p \in PlanIds |-> NoPlan]
    /\ executionResults = [p \in PlanIds |-> NoResults]
    /\ nextPlanId = 1
    /\ IdleExec
    /\ IdleValidator
    /\ IdleReasoning
    /\ lastCall = NoCall

NextValidate == ValidateHeld

SpecValidate == InitValidate /\ [][NextValidate]_vars

----------------------------------------------------------------------------
(* Specification of executePlan *)

\* stored plans whose steps A, B, C have arbitrary dependencies and fallbacks;
\* every step is a tool call that requires grep
ExecStepOf(k, c) ==
    WithTexts(MkStep(StepOrder[k], "tool_call", FilterIn(StepOrder, c[1]),
                     "low", << "grep" >>, TRUE, c[2]),
              SearchTitle, << SearchDoneText >>)

EditChoices == (SUBSET StepIds) \X BOOLEAN

EditedPlan(n, f) ==
    MkPlan(1, MkGoal(FALSE, FALSE, FALSE), [k \in 1..n |-> ExecStepOf(k, f[k])],
           GetAllToolNames(Tools))

\* the plan createPlan stores for a goal under a registry that lets it succeed
CreatedPlan(goal, reg) ==
    MkPlan(1, goal, decomposeGoal(goal, GetAllToolNames(reg)), GetAllToolNames(reg))

StoredAlone(plan) == activePlans = [p \in PlanIds |-> IF p = 1 THEN plan ELSE NoPlan]

InitExec ==
    /\ IdleAgent
    /\ \/ /\ registry \in {Tools, Tools \ {"grep"}}
          /\ \E n \in 1..Len(StepOrder) : \E f \in [1..n -> EditChoices] :
                StoredAlone(EditedPlan(n, f))
       \/ /\ registry \in Registries
          /\ \E goal \in Goals : \E reg \in {r \in Registries : "grep" \in r} :
                StoredAlone(CreatedPlan(goal, reg))
    /\ executionResults = [p \in PlanIds |-> NoResults]
    /\ nextPlanId = 2
    /\ held = NoPlan
    /\ IdleExec
    /\ IdleValidator
    /\ IdleReasoning
    /\ lastCall = NoCall

NextExec ==
    \/ \E planId \in PlanIds : ExecBegin(planId)
    \/ ExecStep
    \/ RegisterTool("grep")
    \/ UnregisterTool("grep")

SpecExec == InitExec /\ [][NextExec]_vars

----------------------------------------------------------------------------
(* Specification of the response validator *)

\* longest list of tool calls of a response
MaxToolCalls == 2

\* the tool calls of the responses: two dangerous shell commands, an edit of
\* a protected file, a call of a tool that does not exist, without
\* parameters, and a shell call that has no parameters object
ToolCallChoices ==
    {MkToolCall(ShellName, Parameters(CmdRmRf, Undefined)),
     MkToolCall(ShellName, Parameters(CmdSudo, Undefined)),
     MkToolCall(EditName, Parameters(Undefined, PathEtc)),
     MkToolCall(EditFileName, Parameters(Undefined, Undefined)),
     MkToolCall(ShellName, NoParameters)}

Contents == {ContentOk, ContentSudo}
Reasonings == {Undefined, << TextTrue >>, << TextTrue, TextFalse >>}
Confidences == {NoConfidence, Confidence(50), Confidence(90)}

PromptContexts == {[availableTools |-> << EditName, ShellName >>]}

ValidationConstraintsSet ==
    {[minimumConfidence |-> 70, forbiddenOperations |-> << OpSudo >>,
      requireReasoning |-> r, safetyChecks |-> s] : r, s \in BOOLEAN}

\* the rule passed to addValidationRule: it reports a low-severity unsafe
\* operation for the first tool call
CustomRules ==
    {CustomRule("CustomUnsafe", FALSE,
                << MkIssue("unsafe_operation", "low", CustomUnsafeText,
                           ToolCall0Text) >>)}

\* the rule names passed to removeValidationRule
RemovedRuleNames == {"ToolAvailability"}

\* the arguments of the validateResponse calls of a behaviour
ValidateArgs(response, context, constraints) ==
    [response |-> response, context |-> context, constraints |-> constraints]

ValidateHeldResponse ==
    /\ held # NoPlan
    /\ ValidateResponse(held.response, held.context, held.constraints)

InitValidator ==
    /\ IdleAgent
    /\ registry = Tools
    /\ activePlans = [p \in PlanIds |-> NoPlan]
    /\ executionResults = [p \in PlanIds |-> NoResults]
    /\ nextPlanId = 1
    /\ \E content \in Contents, reasoning \in Reasonings,
          confidence \in Confidences, context \in PromptContexts,
          constraints \in ValidationConstraintsSet :
          \E n \in 0..MaxToolCalls : \E toolCalls \in [1..n -> ToolCallChoices] :
              held = ValidateArgs(MkResponse(content, toolCalls, reasoning,
                                             confidence), context, constraints)
    /\ IdleExec
    /\ IdleValidator
    /\ IdleReasoning
    /\ lastCall = NoCall

NextValidator ==
    \/ ValidateHeldResponse
    \/ \E rule \in CustomRules : AddValidationRule(rule)
    \/ \E ruleName \in RemovedRuleNames : RemoveValidationRule(ruleName)

SpecValidator == InitValidator /\ [][NextValidator]_vars

----------------------------------------------------------------------------
(* Specification of the step confidence *)

\* most evidence items, and most assumptions, of a step
MaxItems == 10

StepTypes == {"observation", "hypothesis", "verification", "conclusion", "action"}

GoalWords == << "fix", "bug" >>

SudoContext == MkContext(GetAllToolNames(Tools), << << "sudo" >> >>)

\* the chain startReasoning creates, after addReasoningStep calls of the given
\* types, each with one evidence item and no assumption
RECURSIVE GrownChain(_, _)
GrownChain(chain, types) ==
    IF types = << >> THEN chain
    ELSE GrownChain(ChainWithStep(chain, Head(types), << Head(types) >>, 1, 0, Tools),
                    Tail(types))

TypeLists == UNION {[1..n -> StepTypes] : n \in 0..(MaxChainSteps - 2)}

ChainStoredAlone(chain) ==
    activeChains = [c \in ChainIds |-> IF c = 1 THEN chain ELSE NoChain]

InitConfidence ==
    /\ IdleAgent
    /\ registry = Tools
    /\ activePlans = [p \in PlanIds |-> NoPlan]
    /\ executionResults = [p \in PlanIds |-> NoResults]
    /\ nextPlanId = 1
    /\ held = NoPlan
    /\ IdleExec
    /\ IdleValidator
    /\ \E types \in TypeLists :
          ChainStoredAlone(GrownChain(NewChain(1, GoalWords, SudoContext), types))
    /\ nextChainId = 2
    /\ lastCall = NoCall

\* one addReasoningStep call on the stored chain
AddOneStep ==
    /\ lastCall = NoCall
    /\ \E chainId \in ChainIds, stepType \in StepTypes,
          evidence \in 0..MaxItems, assumptions \in 0..MaxItems :
            AddReasoningStep(chainId, stepType, << "next" >>, evidence, assumptions)

NextConfidence == AddOneStep

SpecConfidence == InitConfidence /\ [][NextConfidence]_vars

----------------------------------------------------------------------------
(* Specification of the planner and the reasoning engine side by side *)

\* longest chain of this specification
MaxEngineSteps == 2

\* the ids a call of this specification that adds a step is made with
ShortChainIds ==
    {c \in ChainIds : activeChains[c] # NoChain =>
                         Len(activeChains[c].steps) < MaxEngineSteps}

QuestionWords == << "which", "tool" >>

GrepOption == MkOption("a", << "use", "grep" >>, 1, 0, "low", << "grep" >>)

OptionLists == {<< >>, << GrepOption >>}

\* decision points as createDecisionPoint returns them
DecisionPoints ==
    {MkDecisionPoint(QuestionWords, ScoredOptions(options, Tools)) :
        options \in OptionLists}

\* one plan is stored; startReasoning has handed out every chain id but the
\* last, and all these chains but the first were deleted again
InitEngine ==
    /\ IdleAgent
    /\ registry = Tools
    /\ StoredAlone(EditedPlan(1, [k \in 1..1 |-> << {}, FALSE >>]))
    /\ executionResults = [p \in PlanIds |-> NoResults]
    /\ nextPlanId = 2
    /\ held = NoPlan
    /\ IdleExec
    /\ IdleValidator
    /\ ChainStoredAlone(NewChain(1, GoalWords, SudoContext))
    /\ nextChainId = MaxChains
    /\ lastCall = NoCall

NextEngine ==
    \/ \E planId \in PlanIds : DeletePlan(planId)
    \/ \E planId \in PlanIds : ExecBegin(planId)
    \/ ExecStep
    \/ StartReasoning(GoalWords, SudoContext)
    \/ \E chainId \in ShortChainIds :
          AddReasoningStep(chainId, "hypothesis", << "next" >>, 1, 0)
    \/ \E chainId \in ShortChainIds, options \in OptionLists :
          CreateDecisionPoint(chainId, QuestionWords, options)
    \/ \E chainId \in ShortChainIds, decisionPoint \in DecisionPoints :
          MakeDecision(chainId, decisionPoint, << >>)
    \/ \E chainId \in ShortChainIds : CompleteReasoning(chainId, << "done" >>)
    \/ \E chainId \in ChainIds : ValidateChain(chainId)
    \/ \E chainId \in ChainIds : DeleteChain(chainId)

SpecEngine == InitEngine /\ [][NextEngine]_vars

----------------------------------------------------------------------------
(* Specification of the steps of one chain *)

MkStepInput(stepType, content, evidence, assumptions) ==
    [stepType |-> stepType, content |-> content, evidence |-> evidence,
     assumptions |-> assumptions]

\* the addReasoningStep arguments of this specification: accepted steps, a
\* conclusion without evidence, steps that name a tool, a step that names
\* the constraint
StepInputs ==
    {MkStepInput("hypothesis", << "next" >>, 1, 0),
     MkStepInput("verification", << "check", "it" >>, 1, MaxAssumptions + 1),
     MkStepInput("conclusion", << "done" >>, 0, 0),
     MkStepInput("conclusion", << "done" >>, 1, 0),
     MkStepInput("action", << "use", "grep" >>, 1, 0),
     MkStepInput("action", << "use", "shell" >>, 1, 0),
     MkStepInput("observation", << "run", "sudo" >>, 1, 0)}

\* contexts whose tool set does, and does not, hold grep
StepContexts ==
    {MkContext(GetAllToolNames(reg), << << "sudo" >> >>) :
        reg \in {Tools, Tools \ {"grep"}}}

InitSteps ==
    /\ IdleAgent
    /\ registry \in {Tools, Tools \ {"grep"}}
    /\ activePlans = [p \in PlanIds |-> NoPlan]
    /\ executionResults = [p \in PlanIds |-> NoResults]
    /\ nextPlanId = 1
    /\ held = NoPlan
    /\ IdleExec
    /\ IdleValidator
    /\ \E context \in StepContexts :
          ChainStoredAlone(NewChain(1, GoalWords, context))
    /\ nextChainId = 2
    /\ lastCall = NoCall

NextSteps ==
    \E chainId \in ChainIds, input \in StepInputs :
        AddReasoningStep(chainId, input.stepType, input.content, input.evidence,
                         input.assumptions)

SpecSteps == InitSteps /\ [][NextSteps]_vars

----------------------------------------------------------------------------
(* Specification of the decision points *)

\* most options of a decision point
MaxOptions == 3

\* options of every risk level, with more pros, more cons and as many of
\* both, that need a tool that may be missing, one that is there, none, and
\* one that is never registered
OptionChoices ==
    {MkOption("a", << "use", "grep" >>, 1, 0, "low", << "grep" >>),
     MkOption("b", << "use", "edit" >>, 0, 1, "high", << "edit" >>),
     MkOption("c", << "ask", "user" >>, 1, 1, "medium", << >>),
     MkOption("d", << "use", "shell" >>, 0, 2, "high", << "shell" >>)}

RationaleWords == << "because" >>

InitDecision ==
    /\ IdleAgent
    /\ registry \in {Tools, Tools \ {"grep"}}
    /\ activePlans = [p \in PlanIds |-> NoPlan]
    /\ executionResults = [p \in PlanIds |-> NoResults]
    /\ nextPlanId = 1
    /\ \E n \in 0..MaxOptions : \E options \in [1..n -> OptionChoices] :
          held = [options |-> options]
    /\ IdleExec
    /\ IdleValidator
    /\ ChainStoredAlone(NewChain(1, GoalWords, SudoContext))
    /\ nextChainId = 2
    /\ lastCall = NoCall

\* createDecisionPoint with the options the caller holds
CreateHeldDecisionPoint ==
    \E chainId \in ChainIds : CreateDecisionPoint(chainId, QuestionWords, held.options)

\* makeDecision with the decision point createDecisionPoint has just returned
DecideReturned ==
    /\ lastCall.op = "createDecisionPoint"
    /\ lastCall.threw = "none"
    /\ \E chainId \in ChainIds, rationale \in {<< >>, RationaleWords} :
          MakeDecision(chainId, lastCall.returned, rationale)

NextDecision ==
    \/ CreateHeldDecisionPoint
    \/ DecideReturned

SpecDecision == InitDecision /\ [][NextDecision]_vars

----------------------------------------------------------------------------
(* Specification of the life of one chain *)

\* the addReasoningStep arguments of this specification
LifeInputs ==
    {MkStepInput("hypothesis", << "next" >>, 1, 0),
     MkStepInput("verification", << "check", "it" >>, 1, 0),
     MkStepInput("conclusion", << "done" >>, 0, 0)}

\* startReasoning has handed out every chain id but the last, and all these
\* chains were deleted again
InitLife ==
    /\ IdleAgent
    /\ registry = Tools
    /\ activePlans = [p \in PlanIds |-> NoPlan]
    /\ executionResults = [p \in PlanIds |-> NoResults]
    /\ nextPlanId = 1
    /\ held = NoPlan
    /\ IdleExec
    /\ IdleValidator
    /\ activeChains = [c \in ChainIds |-> NoChain]
    /\ nextChainId = MaxChains
    /\ lastCall = NoCall

NextLife ==
    \/ StartReasoning(GoalWords, SudoContext)
    \/ \E chainId \in ChainIds, input \in LifeInputs :
          AddReasoningStep(chainId, input.stepType, input.content, input.evidence,
                           input.assumptions)
    \/ \E chainId \in ChainIds :
          CreateDecisionPoint(chainId, QuestionWords, << GrepOption >>)
    \/ \E chainId \in ChainIds, decisionPoint \in DecisionPoints :
          MakeDecision(chainId, decisionPoint, << >>)
    \/ \E chainId \in ChainIds : CompleteReasoning(chainId, << "all", "done" >>)
    \/ \E chainId \in ChainIds : pauseChain(chainId)
    \/ \E chainId \in ChainIds : resumeChain(chainId)
    \/ \E chainId \in ChainIds : ValidateChain(chainId)
    \/ \E chainId \in ChainIds : DeleteChain(chainId)

SpecLife == InitLife /\ [][NextLife]_vars

----------------------------------------------------------------------------
(* Specification of the tool availability verifier *)

\* Tools are verified one by one while the clock advances and a tool is
\* removed and registered again.

\* the tools the caller asks about: one that is removed and registered again,
\* and one that stays registered
VerifiedTools == {"grep", "ls"}

InitVerifier ==
    /\ IdleAgent
    /\ registry = Tools
    /\ activePlans = [p \in PlanIds |-> NoPlan]
    /\ executionResults = [p \in PlanIds |-> NoResults]
    /\ nextPlanId = 1
    /\ held = NoPlan
    /\ IdleExec
    /\ IdleValidator
    /\ IdleReasoning
    /\ lastCall = NoCall

NextVerifier ==
    \/ \E toolName \in VerifiedTools : VerifyTool(toolName)
    \/ clearCache
    \/ Tick
    \/ \E t \in VerifiedTools : RegisterTool(t)
    \/ \E t \in VerifiedTools : UnregisterTool(t)

SpecVerifier == InitVerifier /\ [][NextVerifier]_vars

----------------------------------------------------------------------------
(* Specifications of the sessions *)

\* SpecStart: sessions are started and completed while grep is registered and
\* removed.  SpecSessions: sessions are started, sent messages and completed
\* with all tools registered; at most one processMessage call waits for a
\* response at a time, and startSession and completeSession run while it
\* waits.

\* what the caller passes in a behaviour: the goal and the options of its
\* startSession calls and the options of its processMessage calls
MkArguments(userGoal, options, messageOptions) ==
    [userGoal |-> userGoal, options |-> options, messageOptions |-> messageOptions]

UnverifiedStartOptions ==
    [DefaultStartOptions EXCEPT !.enableToolVerification = FALSE]

HeldArguments ==
    {MkArguments(CreateFileGoal, DefaultStartOptions, DefaultMessageOptions),
     MkArguments(BuildCodeGoal, DefaultStartOptions,
                 [DefaultMessageOptions EXCEPT !.maxRetries = 1]),
     MkArguments(BuildCodeGoal, UnverifiedStartOptions,
                 [DefaultMessageOptions EXCEPT !.maxRetries = 2,
                                               !.enableValidation = FALSE]),
     MkArguments(AnalyzeCodeGoal, DefaultStartOptions,
                 [DefaultMessageOptions EXCEPT !.maxRetries = 0]),
     MkArguments(AnalyzeCodeGoal, DefaultStartOptions,
                 [DefaultMessageOptions EXCEPT !.maxRetries = 2,
                                               !.enableReasoning = FALSE]),
     MkArguments(HelloGoal, UnverifiedStartOptions, DefaultMessageOptions),
     MkArguments(HelloGoal, DefaultStartOptions,
                 [DefaultMessageOptions EXCEPT !.maxRetries = 1]),
     MkArguments(BuildCodeGoal, DefaultStartOptions, DefaultMessageOptions),
     MkArguments(AnalyzeCodeGoal, UnverifiedStartOptions, DefaultMessageOptions),
     MkArguments(CreateFileGoal, DefaultStartOptions,
                 [DefaultMessageOptions EXCEPT !.maxRetries = 2,
                                               !.enableValidation = FALSE])}

\* the registry at the construction: no tool yet, or the tools that stay
\* registered; grep is registered and removed later
SessionRegistries == {{}, Tools \ Removable}

StartHeld == StartSession(held.userGoal, held.options)

ProcessHeld(sessionId) == ProcessBegin(sessionId, held.messageOptions)

InitStart ==
    /\ IdleAgent
    /\ registry \in SessionRegistries
    /\ activePlans = [p \in PlanIds |-> NoPlan]
    /\ executionResults = [p \in PlanIds |-> NoResults]
    /\ nextPlanId = 1
    /\ held \in HeldArguments
    /\ IdleExec
    /\ IdleValidator
    /\ IdleReasoning
    /\ lastCall = NoCall

NextStart ==
    \/ StartHeld
    \/ \E sessionId \in SessionIds : CompleteSession(sessionId)
    \/ RegisterTool("grep")
    \/ UnregisterTool("grep")

SpecStart == InitStart /\ [][NextStart]_vars

InitSessions ==
    /\ IdleAgent
    /\ registry = Tools
    /\ activePlans = [p \in PlanIds |-> NoPlan]
    /\ executionResults = [p \in PlanIds |-> NoResults]
    /\ nextPlanId = 1
    /\ held \in HeldArguments
    /\ IdleExec
    /\ IdleValidator
    /\ IdleReasoning
    /\ lastCall = NoCall

NextSessions ==
    \/ StartHeld
    \/ \E sessionId \in SessionIds : ProcessHeld(sessionId)
    \/ \E outcome \in AttemptOutcomes : ProcessAttempt(outcome)
    \/ \E sessionId \in SessionIds : CompleteSession(sessionId)

SpecSessions == InitSessions /\ [][NextSessions]_vars

\* The response of the model arrives and the event loop runs the rest of the
\* attempt: a processMessage call that waits is continued.
SpecSessionsFair ==
    SpecSessions /\ WF_vars(\E outcome \in AttemptOutcomes : ProcessAttempt(outcome))

----------------------------------------------------------------------------
(* The dependency graph, defined without a traversal *)

\* the dependencies find() yields for an id: those of the first step carrying it
DepsOfId(steps, id) ==
    IF FindIndex(steps, id) = 0 THEN {}
    ELSE Range(steps[FindIndex(steps, id)].dependencies)

RECURSIVE IdClosure(_, _)
IdClosure(steps, S) ==
    LET S2 == S \cup UNION {DepsOfId(steps, x) : x \in S}
    IN  IF S2 = S THEN S ELSE IdClosure(steps, S2)

\* some step id reaches itself through the dependencies of the ids
IdGraphCyclic(steps) ==
    \E k \in 1..Len(steps) :
        steps[k].id \in IdClosure(steps, DepsOfId(steps, steps[k].id))

\* the graph over the steps themselves: i -> j when step i names step j's id
StepEdges(steps, I) ==
    {j \in 1..Len(steps) : \E i \in I : steps[j].id \in Range(steps[i].dependencies)}

RECURSIVE StepClosure(_, _)
StepClosure(steps, I) ==
    LET I2 == I \cup StepEdges(steps, I)
    IN  IF I2 = I THEN I ELSE StepClosure(steps, I2)

\* some step is reachable from itself through dependency edges
StepGraphCyclic(steps) ==
    \E k \in 1..Len(steps) : k \in StepClosure(steps, StepEdges(steps, {k}))

UniqueIds(steps) ==
    \A i, j \in 1..Len(steps) : steps[i].id = steps[j].id => i = j

----------------------------------------------------------------------------
(* Properties of executePlan, checked under SpecExec *)

\* an executePlan call has returned its result list
PassEnded == pc = "idle" /\ lastCall.op = "executePlan" /\ lastCall.threw = "none"

\* the body of the step at position k of sortedSteps was run in this pass
BodyRan(k) == sortedSteps[k].id \in Range(invoked)

\* positions of the results recorded for a step id
ResultsOf(id) == {j \in 1..Len(results) : results[j].stepId = id}

\* C1: executePlan never runs the body of a step unless every one of its
\* dependency ids already has a successful result, recorded earlier in the
\* same pass.
C1_BodyOnlyAfterDeps ==
    \A j \in 1..Len(results) :
        results[j].stepId \in Range(invoked) =>
            LET step == sortedSteps[FindIndex(sortedSteps, results[j].stepId)]
            IN  \A d \in Range(step.dependencies) :
                    \E r \in 1..(j - 1) :
                        results[r].stepId = d /\ results[r].success

\* a step with dependencies had its body run, and another one was refused
C1_Witness ==
    /\ PassEnded
    /\ \E k \in 1..Len(sortedSteps) :
          BodyRan(k) /\ Len(sortedSteps[k].dependencies) > 0
    /\ \E k \in 1..Len(results) :
          results[k].errors = << "Dependencies not satisfied" >>

\* step a has no dependencies, its body failed, and step b depends on it
FailedRootOf(a, b) ==
    /\ Len(sortedSteps[a].dependencies) = 0
    /\ \E j \in ResultsOf(sortedSteps[a].id) : ~results[j].success
    /\ sortedSteps[a].id \in Range(sortedSteps[b].dependencies)

\* the step at position k was run, failed and declares no fallback
Stopper(k) ==
    /\ k <= Len(results)
    /\ BodyRan(k)
    /\ ~results[k].success
    /\ ~sortedSteps[k].hasFallback

C3_Original ==
    PassEnded =>
        LET halts == {k \in 1..Len(results) :
                        ~results[k].success /\ ~sortedSteps[k].hasFallback}
        IN  /\ \A k \in halts : Len(results) = k
            /\ halts = {} => Len(results) = Len(sortedSteps)

\* C3 amended: the loop halts at the first step whose body was run and failed
\* and which declares no fallback, and no later step gets a result; a step run
\* and failed with a fallback, and any step whose failure was synthesized for
\* unmet dependencies, does not stop the loop.
C3_HaltsAtRunFailureWithoutFallback ==
    PassEnded =>
        LET halts == {k \in 1..Len(results) : Stopper(k)}
        IN  /\ \A k \in halts : Len(results) = k
            /\ halts = {} => Len(results) = Len(sortedSteps)
            /\ \A k \in 1..Len(results) : results[k].stepId = sortedSteps[k].id

\* a step without fallback got a synthesized failure and the loop went on;
\* a step that was run failed with a fallback and the loop went on
C3_Witness ==
    /\ PassEnded
    /\ \E k \in 1..(Len(results) - 1) :
          ~BodyRan(k) /\ ~sortedSteps[k].hasFallback
    /\ \E k \in 1..(Len(results) - 1) :
          BodyRan(k) /\ ~results[k].success /\ sortedSteps[k].hasFallback

\* position of a step id in sortedSteps, 0 if absent
PosOf(id) == FindIndex(sortedSteps, id)

\* C4: for a stored plan with unique step ids and an acyclic dependency graph,
\* executePlan does not throw and processes the steps in a topological order:
\* each step appears exactly once, after all of its dependencies; in a plan
\* built by createPlan analysis-1 comes first and synthesis-1 last.
C4_TopologicalOrder ==
    LET plan == activePlans[1]
        acyclic == UniqueIds(plan.steps) /\ ~StepGraphCyclic(plan.steps)
    IN  /\ (lastCall.op = "executePlan" /\ lastCall.planId = 1 /\ acyclic)
              => lastCall.threw = "none"
        /\ ((pc = "loop" \/ PassEnded) /\ acyclic) =>
              /\ Len(sortedSteps) = Len(plan.steps)
              /\ \A k \in 1..Len(plan.steps) :
                    Cardinality({i \in 1..Len(sortedSteps) :
                                   sortedSteps[i] = plan.steps[k]}) = 1
              /\ \A i \in 1..Len(sortedSteps) :
                    \A d \in Range(sortedSteps[i].dependencies) :
                        PosOf(d) # 0 => PosOf(d) < i
              /\ plan.steps[1].id = "analysis-1" =>
                    /\ sortedSteps[1].id = "analysis-1"
                    /\ sortedSteps[Len(sortedSteps)].id = "synthesis-1"
              /\ \A k \in 1..Len(results) : results[k].stepId = sortedSteps[k].id

\* a pass over a plan whose declaration order is not a topological order
C4_Witness ==
    /\ PassEnded
    /\ Len(results) = 3
    /\ sortedSteps # activePlans[1].steps
    /\ \A k \in 1..3 : results[k].success

----------------------------------------------------------------------------
(* Properties of validatePlan, checked under SpecValidate and Spec *)

Validated == lastCall.op = "validatePlan"

ErrorSet == Range(lastCall.result.errors)
WarningSet == Range(lastCall.result.warnings)

ToolError(stepId, tool) == [kind |-> "tool", step |-> stepId, name |-> tool]
OrphanError(stepId, dep) == [kind |-> "dependency", step |-> stepId, name |-> dep]
CriteriaWarning(stepId) == [kind |-> "criteria", step |-> stepId, name |-> ""]

\* C5 as stated: validatePlan reports an error if and only if the
\* step-dependency graph contains a cycle.
C5_Original ==
    Validated =>
        (~lastCall.result.isValid <=> StepGraphCyclic(lastCall.plan.steps))

\* C5 amended: validatePlan reports the circular-dependencies error if and only
\* if some step id reaches itself through dependency edges, the edges of an id
\* being the dependencies of the first step that carries it; for a plan with
\* unique step ids that is exactly when the step graph contains a cycle.  The
\* plan is then not valid; a plan without a cycle can still be not valid.
C5_CircularErrorIffCycle ==
    Validated =>
        LET steps == lastCall.plan.steps
        IN  /\ (CircularError \in ErrorSet) <=> IdGraphCyclic(steps)
            /\ UniqueIds(steps) =>
                  ((CircularError \in ErrorSet) <=> StepGraphCyclic(steps))
            /\ (CircularError \in ErrorSet) => ~lastCall.result.isValid

\* the 3-step cycle A -> B -> C -> A was validated and rejected
C5_Witness ==
    /\ Validated
    /\ MapIds(lastCall.plan.steps) = << "A", "B", "C" >>
    /\ lastCall.plan.steps[1].dependencies = << "B" >>
    /\ lastCall.plan.steps[2].dependencies = << "C" >>
    /\ lastCall.plan.steps[3].dependencies = << "A" >>
    /\ CircularError \in ErrorSet
    /\ ~lastCall.result.isValid

\* C6: validatePlan checks the required tools against the tools registered at
\* the time of the call, not against the snapshot stored in the plan: it
\* reports a tool error, naming the tool and the step, exactly for the
\* required tools that are not registered, and then isValid is false.
C6_ToolsAtValidationTime ==
    Validated =>
        \A k \in 1..Len(lastCall.plan.steps) :
            \A t \in Range(lastCall.plan.steps[k].requiredTools) :
                /\ (ToolError(lastCall.plan.steps[k].id, t) \in ErrorSet)
                      <=> t \notin lastCall.tools
                /\ t \notin lastCall.tools => ~lastCall.result.isValid

\* a tool in the plan's snapshot was removed before the validation
C6_Witness ==
    /\ Validated
    /\ activePlans[lastCall.plan.id] = lastCall.plan
    /\ \E k \in 1..Len(lastCall.plan.steps) :
          \E t \in Range(lastCall.plan.steps[k].requiredTools) :
              /\ t \in Range(lastCall.plan.availableTools)
              /\ t \notin lastCall.tools
              /\ ToolError(lastCall.plan.steps[k].id, t) \in ErrorSet
    /\ ~lastCall.result.isValid

HighCount(steps) ==
    Cardinality({k \in 1..Len(steps) : steps[k].estimatedComplexity = "high"})

\* C7: a dependency id that names no step of the plan is an error and makes
\* isValid false; more than 3 high-complexity steps and steps without
\* validation criteria add warnings only: isValid is decided by the cycle,
\* tool and dependency checks alone.
C7_ErrorsAndWarnings ==
    Validated =>
        LET steps == lastCall.plan.steps
            ids == {steps[k].id : k \in 1..Len(steps)}
            dangling == \E k \in 1..Len(steps) :
                            \E d \in Range(steps[k].dependencies) : d \notin ids
            missing == \E k \in 1..Len(steps) :
                           \E t \in Range(steps[k].requiredTools) :
                               t \notin lastCall.tools
        IN  /\ \A k \in 1..Len(steps) :
                  \A d \in Range(steps[k].dependencies) :
                      (OrphanError(steps[k].id, d) \in ErrorSet) <=> d \notin ids
            /\ dangling => ~lastCall.result.isValid
            /\ lastCall.result.isValid
                  <=> (~IdGraphCyclic(steps) /\ ~dangling /\ ~missing)
            /\ (ComplexityWarning \in WarningSet) <=> HighCount(steps) > 3
            /\ \A k \in 1..Len(steps) :
                  (CriteriaWarning(steps[k].id) \in WarningSet)
                      <=> ~steps[k].hasCriteria
            /\ \A e \in ErrorSet : e.kind \in {"circular", "tool", "dependency"}

\* a plan with four high-complexity steps, one of them without validation
\* criteria, was found valid, with both warnings
C7_Witness ==
    /\ Validated
    /\ HighCount(lastCall.plan.steps) > 3
    /\ ComplexityWarning \in WarningSet
    /\ \E k \in 1..Len(lastCall.plan.steps) :
          CriteriaWarning(lastCall.plan.steps[k].id) \in WarningSet
    /\ lastCall.result.isValid

----------------------------------------------------------------------------
(* Properties of createPlan, checked under Spec *)

StoredIds == {p \in PlanIds : activePlans[p] # NoPlan}

\* C8: round trip: a plan createPlan returned, validated while the registry
\* holds the tools it held at creation, is valid, for every goal category.
C8_CreateThenValidate ==
    (Validated /\ Range(lastCall.plan.availableTools) = lastCall.tools)
        => lastCall.result.isValid

\* a stored general-category plan was validated under its creation-time tools
C8_Witness ==
    /\ Validated
    /\ activePlans[lastCall.plan.id] = lastCall.plan
    /\ Range(lastCall.plan.availableTools) = lastCall.tools
    /\ lastCall.plan.steps[3].id = "general-1"
    /\ lastCall.result.isValid

\* C9 as stated: every plan createPlan produced starts with analysis-1 (no
\* dependencies) and verification-1 (depending on it) and ends with
\* synthesis-1, whose dependencies are the ids of all the other steps.
C9_Original ==
    \A p \in StoredIds :
        LET steps == activePlans[p].steps
            last == steps[Len(steps)]
        IN  /\ steps[1].id = "analysis-1" /\ steps[1].dependencies = << >>
            /\ steps[2].id = "verification-1"
            /\ steps[2].dependencies = << "analysis-1" >>
            /\ last.id = "synthesis-1"
            /\ Range(last.dependencies) =
                  {steps[k].id : k \in 1..(Len(steps) - 1)}

\* C10: when validatePlan reports an error for the decomposed plan, createPlan
\* throws and stores nothing: the plans visible through getPlan and
\* getAllPlans are the same as before the call; a plan it does store is valid
\* under the registry of the call.
C10_RejectedPlanNotStored ==
    [][ nextPlanId' # nextPlanId =>
          /\ lastCall'.op = "createPlan"
          /\ lastCall'.threw = "invalid" =>
                /\ activePlans' = activePlans
                /\ getAllPlans(activePlans') = getAllPlans(activePlans)
          /\ lastCall'.threw = "none" =>
                /\ activePlans'[lastCall'.planId] # NoPlan
                /\ validatePlan(activePlans'[lastCall'.planId], registry).isValid
          /\ (lastCall'.threw = "invalid") <=>
                (activePlans'[lastCall'.planId] = NoPlan) ]_vars

\* createPlan threw while another plan was stored, and stored nothing
C10_Witness ==
    /\ lastCall.op = "createPlan"
    /\ lastCall.threw = "invalid"
    /\ activePlans[lastCall.planId] = NoPlan
    /\ StoredIds # {}

----------------------------------------------------------------------------
(* Properties of validateResponse, checked under SpecValidator *)

ResponseValidated == lastCall.op = "validateResponse"

\* positions of the returned issues that satisfy a test
IssuesWithSeverity(severity) ==
    {k \in 1..Len(lastCall.result.issues) :
        lastCall.result.issues[k].severity = severity}
IssuesWithType(type) ==
    {k \in 1..Len(lastCall.result.issues) : lastCall.result.issues[k].type = type}

\* the rule list the call ran holds a rule of this name
RanRule(name) == \E k \in 1..Len(lastCall.rules) : lastCall.rules[k].name = name

\* the call ran the built-in rules only
RanOnlyBuiltinRules == \A k \in 1..Len(lastCall.rules) : ~lastCall.rules[k].custom

\* positions of the tool calls that name a tool absent from context.availableTools
UnavailableCalls ==
    {k \in 1..Len(lastCall.response.toolCalls) :
        ~Contains(lastCall.context.availableTools,
                  lastCall.response.toolCalls[k].name)}

HasReasoning ==
    lastCall.response.reasoning # Undefined /\ Len(lastCall.response.reasoning) > 0

\* C12 as stated: a response with a tool call whose name is not in
\* context.availableTools gets at least one critical issue and
\* allowExecution = false.
C12_Original ==
    (ResponseValidated /\ UnavailableCalls # {}) =>
        /\ IssuesWithSeverity("critical") # {}
        /\ ~lastCall.result.allowExecution

\* C12 amended: as long as the ToolAvailability rule is in the validator's rule
\* list, a response with a tool call whose name is not in
\* context.availableTools gets a critical tool_not_available issue and
\* allowExecution = false, whatever the score, the bonuses and the constraints
\* are; once removeValidationRule has taken that rule out, the built-in rules
\* report no critical issue for such a response.
C12_UnavailableToolBlocked ==
    (ResponseValidated /\ UnavailableCalls # {}) =>
        /\ RanRule("ToolAvailability") =>
              /\ IssuesWithSeverity("critical") \cap IssuesWithType("tool_not_available")
                    # {}
              /\ ~lastCall.result.allowExecution
        /\ (~RanRule("ToolAvailability") /\ RanOnlyBuiltinRules) =>
              IssuesWithSeverity("critical") = {}

\* a response with both bonuses that calls a tool that does not exist was
\* refused under the built-in rules
C12_Witness ==
    /\ ResponseValidated
    /\ UnavailableCalls # {}
    /\ RanRule("ToolAvailability")
    /\ HasReasoning
    /\ lastCall.response.confidence = Confidence(90)
    /\ IssuesWithSeverity("critical") # {}
    /\ ~lastCall.result.allowExecution

\* C13: the execution gate: allowExecution is false if any issue is critical,
\* or if constraints.safetyChecks is on and any issue has type
\* unsafe_operation; in every other case it is true exactly when the score is
\* at least 0.6.
C13_ExecutionGate ==
    ResponseValidated =>
        LET blocked == \/ IssuesWithSeverity("critical") # {}
                       \/ /\ lastCall.constraints.safetyChecks
                          /\ IssuesWithType("unsafe_operation") # {}
        IN  /\ blocked => ~lastCall.result.allowExecution
            /\ ~blocked =>
                  (lastCall.result.allowExecution <=> lastCall.result.score >= 60)

\* with safety checks off, a response with an unsafe_operation issue and no
\* critical one was allowed to execute on its score
C13_Witness ==
    /\ ResponseValidated
    /\ ~lastCall.constraints.safetyChecks
    /\ IssuesWithType("unsafe_operation") # {}
    /\ IssuesWithSeverity("critical") = {}
    /\ lastCall.result.score >= 60
    /\ lastCall.result.allowExecution

\* a shell call whose command includes a known-dangerous substring, or a
\* write_file or edit call whose path starts with a protected prefix
DangerousToolCall(toolCall) ==
    /\ ~toolCall.parameters.absent
    /\ \/ /\ toolCall.name = ShellName
          /\ toolCall.parameters.command # Undefined
          /\ \E d \in 1..Len(DangerousCommandTexts) :
                Includes(toolCall.parameters.command, DangerousCommandTexts[d])
       \/ /\ toolCall.name \in {WriteFileName, EditName}
          /\ toolCall.parameters.file_path # Undefined
          /\ \E d \in 1..Len(DangerousPathTexts) :
                StartsWith(toolCall.parameters.file_path, DangerousPathTexts[d])

\* C14 as stated: with safety checks enabled, every response with a dangerous
\* shell command (rm -rf, sudo, chmod 777, mkfs, dd if=, kill -9) or a
\* write_file/edit call on a protected path gets an unsafe_operation issue and
\* allowExecution = false.
C14_Original ==
    (/\ ResponseValidated
     /\ lastCall.rules = DefaultRules
     /\ lastCall.constraints.safetyChecks
     /\ \E k \in 1..Len(lastCall.response.toolCalls) :
           DangerousToolCall(lastCall.response.toolCalls[k]))
    => /\ IssuesWithType("unsafe_operation") # {}
       /\ ~lastCall.result.allowExecution

\* no tool calls, no reasoning steps, no forbidden operation in the content
PlainResponse ==
    /\ Len(lastCall.response.toolCalls) = 0
    /\ ~HasReasoning
    /\ \A k \in 1..Len(lastCall.constraints.forbiddenOperations) :
          ~Includes(toLowerCase(lastCall.response.content),
                    toLowerCase(lastCall.constraints.forbiddenOperations[k]))

\* C15 as stated: a response with zero tool calls, no reasoning steps and
\* no forbidden operation in its content gets score 1.0 and
\* allowExecution = true.
C15_Original ==
    (ResponseValidated /\ lastCall.rules = DefaultRules /\ PlainResponse) =>
        /\ lastCall.result.score = 100
        /\ lastCall.result.allowExecution

\* C15 amended: under the built-in rules, a response with zero tool calls, no
\* reasoning steps and no forbidden operation in its content gets
\* allowExecution = true and the score 1.0, less 0.2 if the constraints
\* require reasoning, less 0.1 if its confidence is set, not zero and below
\* minimumConfidence, plus 0.05 if its confidence exceeds 0.8.
C15_PlainResponseAllowed ==
    (ResponseValidated /\ lastCall.rules = DefaultRules /\ PlainResponse) =>
        LET c == lastCall.response.confidence
        IN  /\ lastCall.result.allowExecution
            /\ lastCall.result.score =
                  100 - (IF lastCall.constraints.requireReasoning THEN 20 ELSE 0)
                      - (IF c.defined /\ c.value # 0
                            /\ c.value < lastCall.constraints.minimumConfidence
                         THEN 10 ELSE 0)
                      + (IF c.defined /\ c.value > 80 THEN 5 ELSE 0)

\* a plain response without confidence, reasoning not required: score 1.0
C15_Witness ==
    /\ ResponseValidated
    /\ lastCall.rules = DefaultRules
    /\ PlainResponse
    /\ ~lastCall.constraints.requireReasoning
    /\ ~lastCall.response.confidence.defined
    /\ lastCall.result.score = 100
    /\ lastCall.result.allowExecution

\* C16: the score is max(0, 1.0 - 0.4 per critical - 0.2 per high - 0.1 per
\* medium - 0.05 per low issue + 0.1 if the response has a reasoning step
\* + 0.05 if its confidence exceeds 0.8), counted over the issues of all the
\* rules, which are all in the result.
C16_ScoreFormula ==
    ResponseValidated =>
        LET raw == 100 - 40 * Cardinality(IssuesWithSeverity("critical"))
                       - 20 * Cardinality(IssuesWithSeverity("high"))
                       - 10 * Cardinality(IssuesWithSeverity("medium"))
                       - 5 * Cardinality(IssuesWithSeverity("low"))
                       + (IF HasReasoning THEN 10 ELSE 0)
                       + (IF lastCall.response.confidence.defined
                             /\ lastCall.response.confidence.value > 80
                          THEN 5 ELSE 0)
        IN  /\ lastCall.result.score = IF raw > 0 THEN raw ELSE 0
            /\ \A k \in 1..Len(lastCall.rules) :
                  ~lastCall.outcomes[k].threw =>
                      Range(lastCall.outcomes[k].issues)
                          \subseteq Range(lastCall.result.issues)

\* issues of all four severities and both bonuses, and a score above 0
C16_Witness ==
    /\ ResponseValidated
    /\ \A s \in {"critical", "high", "medium", "low"} : IssuesWithSeverity(s) # {}
    /\ HasReasoning
    /\ lastCall.response.confidence = Confidence(90)
    /\ lastCall.result.score > 0
    /\ lastCall.result.score < 100

\* number of issues the rules before position k put into the result
RECURSIVE IssuesBefore(_)
IssuesBefore(k) ==
    IF k <= 1 THEN 0
    ELSE IssuesBefore(k - 1)
         + (IF lastCall.outcomes[k - 1].threw THEN 1
            ELSE Len(lastCall.outcomes[k - 1].issues))

\* C17: when a rule throws, validateResponse still returns a result: the rule
\* that threw contributes exactly one issue, of medium severity, and the issues
\* of every rule before and after it are in the result, in the rules' order.
C17_ThrowingRuleCaptured ==
    ResponseValidated =>
        LET n == Len(lastCall.rules)
            issues == lastCall.result.issues
        IN  /\ lastCall.threw = "none"
            /\ Len(issues) = IssuesBefore(n + 1)
            /\ \A k \in 1..n :
                  IF lastCall.outcomes[k].threw
                  THEN /\ issues[IssuesBefore(k) + 1].severity = "medium"
                       /\ issues[IssuesBefore(k) + 1].location = ValidatorText
                  ELSE \A i \in 1..Len(lastCall.outcomes[k].issues) :
                          issues[IssuesBefore(k) + i] = lastCall.outcomes[k].issues[i]

\* the SafetyCheck rule threw between two rules that reported issues
C17_Witness ==
    /\ ResponseValidated
    /\ \E k \in 2..(Len(lastCall.rules) - 1) :
          /\ lastCall.rules[k].name = "SafetyCheck"
          /\ lastCall.outcomes[k].threw
          /\ \E j \in 1..(k - 1) : Len(lastCall.outcomes[j].issues) > 0
          /\ \E j \in (k + 1)..Len(lastCall.rules) :
                Len(lastCall.outcomes[j].issues) > 0
    /\ Cardinality(IssuesWithType("factual_error")) = 1

\* the tool call at position k was flagged tool_not_available or
\* unsafe_operation by a built-in rule
FlaggedCall(k) ==
    LET toolCall == lastCall.response.toolCalls[k]
    IN  \/ RanRule("ToolAvailability") /\ k \in UnavailableCalls
        \/ /\ \E r \in 1..Len(lastCall.rules) :
                 /\ lastCall.rules[r].name = "SafetyCheck"
                 /\ ~lastCall.outcomes[r].threw
           /\ lastCall.constraints.safetyChecks
           /\ toolCall.name = ShellName
           /\ toolCall.parameters.command # Undefined
           /\ Includes(toolCall.parameters.command, RmRfText)

\* the tool calls that were not flagged, in their order
RECURSIVE UnflaggedCalls(_)
UnflaggedCalls(k) ==
    IF k > Len(lastCall.response.toolCalls) THEN << >>
    ELSE (IF FlaggedCall(k) THEN << >> ELSE << lastCall.response.toolCalls[k] >>)
         \o UnflaggedCalls(k + 1)

\* C18 as stated: the corrected response holds exactly the original tool
\* calls that were not flagged tool_not_available or unsafe_operation, and
\* there is no corrected response when no call is flagged.
C18_Original ==
    (ResponseValidated /\ RanOnlyBuiltinRules) =>
        IF \E k \in 1..Len(lastCall.response.toolCalls) : FlaggedCall(k)
        THEN /\ lastCall.result.correctedResponse # NoResponse
             /\ lastCall.result.correctedResponse.toolCalls = UnflaggedCalls(1)
        ELSE lastCall.result.correctedResponse = NoResponse

----------------------------------------------------------------------------
(* Properties of the step confidence *)

\* the last call was an addReasoningStep that stored a step
StepAdded == lastCall.op = "addReasoningStep" /\ lastCall.threw = "none"

AddedStep ==
    LET steps == activeChains[lastCall.chainId].steps IN steps[Len(steps)]

\* the steps of the chain when the call was made
StepsAtCall ==
    LET steps == activeChains[lastCall.chainId].steps
    IN  SubSeq(steps, 1, Len(steps) - 1)

Least(a, b) == IF a < b THEN a ELSE b

TypeBonus(stepType) ==
    CASE stepType = "observation" -> 10
      [] stepType = "verification" -> 20
      [] stepType = "conclusion" -> 10
      [] OTHER -> 0

RecognizedTransition(fromType, toType) ==
    << fromType, toType >> \in {<< "observation", "hypothesis" >>,
                                << "hypothesis", "verification" >>,
                                << "verification", "conclusion" >>}

\* the transition term as addReasoningStep grants it: the chain held at least
\* two steps at the call, and the one before its last leads to the new step
TransitionGranted ==
    /\ Len(StepsAtCall) > 1
    /\ RecognizedTransition(StepsAtCall[Len(StepsAtCall) - 1].type, lastCall.stepType)

\* C19: the confidence addReasoningStep assigns to a step lies between 0 and 1
\* (0 and 100 hundredths), whatever the step type, the steps already in the
\* chain, and the numbers (0 to MaxItems) of evidence items and assumptions
C19_ConfidenceInRange ==
    StepAdded => AddedStep.confidence \in 0..100

\* a verification step with ten evidence items and ten assumptions was added
\* after a recognized transition
C19_Witness ==
    /\ StepAdded
    /\ lastCall.evidence = 10
    /\ lastCall.assumptions = 10
    /\ lastCall.stepType = "verification"
    /\ TransitionGranted

\* C20 as stated: the confidence is 0.5, plus 0.1 per evidence item up to 0.3,
\* minus 0.05 per assumption up to 0.2, plus the type bonus, plus 0.1 for a
\* recognized transition, clamped to [0,1], and nothing else
C20_Original ==
    StepAdded =>
        LET sum == 50 + Least(lastCall.evidence * 10, 30)
                      - Least(lastCall.assumptions * 5, 20)
                      + TypeBonus(lastCall.stepType)
                      + (IF TransitionGranted THEN 10 ELSE 0)
        IN  AddedStep.confidence = Least(IF sum > 0 THEN sum ELSE 0, 100)

\* C20: the confidence addReasoningStep assigns is 0.5, plus 0.1 per evidence
\* item up to 0.3, plus 0.1 if the step has no assumption and otherwise minus
\* 0.05 per assumption up to 0.2, plus the type bonus (observation 0.1,
\* verification 0.2, conclusion 0.1, others 0), plus 0.1 if the chain held at
\* least two steps at the call and the step before its last one and the new
\* step form a recognized transition; the sum is capped at 1
C20_ConfidenceFormula ==
    StepAdded =>
        AddedStep.confidence =
            Least(50 + Least(lastCall.evidence * 10, 30)
                     + (IF lastCall.assumptions = 0 THEN 10
                        ELSE -Least(lastCall.assumptions * 5, 20))
                     + TypeBonus(lastCall.stepType)
                     + (IF TransitionGranted THEN 10 ELSE 0),
                  100)

\* a hypothesis without assumptions was added after a recognized transition,
\* and its confidence is below the cap
C20_Witness ==
    /\ StepAdded
    /\ lastCall.assumptions = 0
    /\ lastCall.stepType = "hypothesis"
    /\ TransitionGranted
    /\ AddedStep.confidence < 100

----------------------------------------------------------------------------
(* Properties of the lookups by id *)

LookupOps == {"executePlan", "addReasoningStep", "createDecisionPoint",
              "makeDecision", "completeReasoning", "validateChain"}

\* this step completes one of the calls that look an id up, and the call
\* started in this step
LookupCompleted ==
    /\ lastCall' # lastCall
    /\ lastCall'.op \in LookupOps
    /\ lastCall'.op = "executePlan" => pc = "idle"

\* the id of the call named no plan, or no chain, when the call was made: it
\* was never handed out, or what it named was deleted
LookupOfAbsentId ==
    /\ LookupCompleted
    /\ IF lastCall'.op = "executePlan"
       THEN activePlans[lastCall'.planId] = NoPlan
       ELSE activeChains[lastCall'.chainId] = NoChain

StoresUnchanged == UNCHANGED << activePlans, executionResults, activeChains >>

\* C11 as stated: a lookup of an absent id throws the not-found error, returns
\* nothing and leaves plans, execution results and chains as they were
C11_Original ==
    [][LookupOfAbsentId => lastCall'.threw = "not-found" /\ StoresUnchanged]_vars

\* C11: executePlan, addReasoningStep, createDecisionPoint, makeDecision,
\* completeReasoning and validateChain called with an id that was never created
\* or was deleted throw an error, return nothing and leave plans, execution
\* results and chains as they were; the error is the not-found error, except
\* that makeDecision given a decision point without options throws a TypeError
C11_AbsentIdThrows ==
    [][LookupOfAbsentId =>
          /\ lastCall'.threw =
                IF lastCall'.op = "makeDecision"
                   /\ Len(lastCall'.decisionPoint.options) = 0
                THEN "type-error" ELSE "not-found"
          /\ StoresUnchanged]_vars

\* makeDecision has just thrown not-found for the id of a deleted chain, while
\* another chain and a plan are stored
C11_Witness ==
    /\ lastCall.op = "makeDecision"
    /\ lastCall.threw = "not-found"
    /\ lastCall.chainId < nextChainId
    /\ activeChains[lastCall.chainId] = NoChain
    /\ \E c \in ChainIds : activeChains[c] # NoChain
    /\ \E p \in PlanIds : activePlans[p] # NoPlan

----------------------------------------------------------------------------
(* Properties of the steps of a chain *)

\* the last step of the chain at the call: the one the new step directly follows
PredecessorAtCall == StepsAtCall[Len(StepsAtCall)]

\* validation of the added step found an issue of this type and severity
FoundIssue(type, severity) ==
    \E k \in 1..Len(lastCall.issues) :
        lastCall.issues[k].type = type /\ lastCall.issues[k].severity = severity

\* C21 as stated: the transition term of the confidence is granted exactly
\* when the last step of the chain at the call and the new step form a
\* recognized transition
C21_Original ==
    StepAdded =>
        AddedStep.confidence =
            Least(50 + Least(lastCall.evidence * 10, 30)
                     + (IF lastCall.assumptions = 0 THEN 10
                        ELSE -Least(lastCall.assumptions * 5, 20))
                     + TypeBonus(lastCall.stepType)
                     + (IF RecognizedTransition(PredecessorAtCall.type,
                                                lastCall.stepType)
                        THEN 10 ELSE 0),
                  100)

\* at least 80% of the tokens of the first text occur in the second
SharesTokens(text1, text2) ==
    10 * Cardinality({k \in 1..Len(text1) : text1[k] \in Range(text2)})
        >= 8 * Len(text1)

\* C22 as stated: a step whose content shares at least 80% of its tokens with
\* the content of a step already in the chain, the last one included, gets a
\* high circular_reasoning issue and is rejected
C22_Original ==
    (StepAdded /\ \E k \in 1..Len(StepsAtCall) :
                     SharesTokens(lastCall.content, StepsAtCall[k].content))
        => /\ FoundIssue("circular_reasoning", "high")
           /\ AddedStep.validationStatus = "rejected"

\* this step is an addReasoningStep call on a chain that exists
AddOnExistingChain ==
    /\ lastCall' # lastCall \/ activeChains' # activeChains
    /\ lastCall'.op = "addReasoningStep"
    /\ activeChains[lastCall'.chainId] # NoChain

\* C23: every addReasoningStep on an existing chain appends exactly one step
\* and changes no other step or chain; the step is rejected exactly when its
\* validation found a critical or high issue and validated otherwise; a
\* rejected step has the issue text as one more evidence entry, a validated
\* step has the evidence it was given
C23_StepAlwaysAppended ==
    [][AddOnExistingChain =>
          LET c == lastCall'.chainId
              before == activeChains[c].steps
              after == activeChains'[c].steps
              added == after[Len(after)]
              severe == \E k \in 1..Len(lastCall'.issues) :
                           lastCall'.issues[k].severity \in {"critical", "high"}
          IN  /\ lastCall'.threw = "none"
              /\ Len(after) = Len(before) + 1
              /\ SubSeq(after, 1, Len(before)) = before
              /\ \A d \in ChainIds \ {c} : activeChains'[d] = activeChains[d]
              /\ added.validationStatus = IF severe THEN "rejected" ELSE "validated"
              /\ added.issuesNoted = severe
              /\ added.evidence = lastCall'.evidence + (IF severe THEN 1 ELSE 0)]_vars

\* a rejected step was appended to a chain that already held a rejected step
C23_Witness ==
    /\ StepAdded
    /\ AddedStep.validationStatus = "rejected"
    /\ AddedStep.issuesNoted
    /\ \E k \in 1..Len(StepsAtCall) : StepsAtCall[k].validationStatus = "rejected"

RECURSIVE SumValidated(_, _)
SumValidated(steps, k) ==
    IF k > Len(steps) THEN 0
    ELSE (IF steps[k].validationStatus = "validated" THEN steps[k].confidence ELSE 0)
         + SumValidated(steps, k + 1)

CountStatus(steps, status) ==
    Cardinality({k \in 1..Len(steps) : steps[k].validationStatus = status})

\* C24: after an addReasoningStep the overall confidence of the chain is the
\* mean confidence of its validated steps minus 0.1 per rejected step, at
\* least 0; it is a number (the chain has a validated step) and at most 1
C24_OverallConfidence ==
    StepAdded =>
        LET chain == activeChains[lastCall.chainId]
            valid == CountStatus(chain.steps, "validated")
            rejected == CountStatus(chain.steps, "rejected")
            value == SumValidated(chain.steps, 1) - 10 * rejected * valid
        IN  /\ valid > 0
            /\ chain.overallConfidence.den = valid
            /\ chain.overallConfidence.num = (IF value > 0 THEN value ELSE 0)
            /\ chain.overallConfidence.num >= 0
            /\ chain.overallConfidence.num <= 100 * chain.overallConfidence.den

\* the chain holds two rejected steps and more than one validated step
C24_Witness ==
    /\ StepAdded
    /\ CountStatus(activeChains[lastCall.chainId].steps, "rejected") = 2
    /\ CountStatus(activeChains[lastCall.chainId].steps, "validated") > 1
    /\ activeChains[lastCall.chainId].overallConfidence.num > 0

\* C26 as stated: an action step gets a high tool_availability issue exactly
\* when a tool token of its content is missing from the tools of the chain's
\* context, whatever the registry lists
C26_Original ==
    (StepAdded /\ lastCall.stepType = "action") =>
        (FoundIssue("tool_availability", "high")
            <=> \E k \in 1..Len(lastCall.content) :
                   /\ lastCall.content[k] \in ToolTokens
                   /\ ~Contains(activeChains[lastCall.chainId].context.availableTools,
                                lastCall.content[k]))

\* C27 as stated: a hypothesis gets a medium logical_inconsistency issue
\* exactly when the last step of the chain at the call is a conclusion
C27_Original ==
    StepAdded =>
        (FoundIssue("logical_inconsistency", "medium")
            <=> /\ lastCall.stepType = "hypothesis"
                /\ PredecessorAtCall.type = "conclusion")

----------------------------------------------------------------------------
(* Properties of the result list of executePlan *)

\* an executePlan call on a stored plan is over
ExecutedStoredPlan ==
    /\ pc = "idle"
    /\ lastCall.op = "executePlan"
    /\ activePlans[lastCall.planId] # NoPlan

\* C28: executePlan on a stored plan with an acyclic graph does not throw; a
\* step whose body threw, or whose required tool was missing, has a failed
\* result; the stored list holds one result for every step whose body was
\* run, at most one result per step id, and only results of steps of the plan
C28_StepFailuresContained ==
    /\ (ExecutedStoredPlan /\ ~IdGraphCyclic(activePlans[lastCall.planId].steps))
          => lastCall.threw = "none"
    /\ (ExecutedStoredPlan /\ lastCall.threw = "none") =>
          LET plan == activePlans[lastCall.planId]
              list == executionResults[lastCall.planId].list
          IN  /\ executionResults[lastCall.planId].present
              /\ \A i, j \in 1..Len(list) : list[i].stepId = list[j].stepId => i = j
              /\ \A j \in 1..Len(list) :
                    \E k \in 1..Len(plan.steps) : plan.steps[k].id = list[j].stepId
              /\ \A j \in 1..Len(list) : list[j].errors # << >> => ~list[j].success
              /\ \A id \in Range(invoked) :
                    \E j \in 1..Len(list) : list[j].stepId = id

\* a pass in which the body of one step threw and another step, whose body
\* was run, failed for a missing tool
C28_Witness ==
    /\ ExecutedStoredPlan
    /\ lastCall.threw = "none"
    /\ LET list == executionResults[lastCall.planId].list
       IN  \E i, j \in 1..Len(list) :
              /\ list[i].errors = << "threw" >>
              /\ list[j].stepId \in Range(invoked)
              /\ ~list[j].success
              /\ list[j].errors # << "threw" >>

----------------------------------------------------------------------------
(* Properties of the decision points *)

\* this step is a createDecisionPoint call that returned a decision point
DecisionPointReturned ==
    /\ lastCall' # lastCall \/ activeChains' # activeChains
    /\ lastCall'.op = "createDecisionPoint"
    /\ lastCall'.threw = "none"

\* this step is a makeDecision call for a chain that exists
DecisionOnExistingChain ==
    /\ lastCall' # lastCall \/ activeChains' # activeChains
    /\ lastCall'.op = "makeDecision"
    /\ activeChains[lastCall'.chainId] # NoChain

RankedOptions(options) ==
    /\ \A k \in 1..Len(options) : options[k].feasibilityScore \in 0..100
    /\ \A k \in 1..(Len(options) - 1) :
          options[k].feasibilityScore >= options[k + 1].feasibilityScore

\* the call selected the first option and appended a conclusion that names it
FirstOptionSelected ==
    LET c == lastCall'.chainId
        options == lastCall'.decisionPoint.options
        after == activeChains'[c].steps
    IN  /\ lastCall'.threw = "none"
        /\ lastCall'.returned = options[1]
        /\ lastCall'.decisionPoint.selectedOption = options[1].id
        /\ Len(after) = Len(activeChains[c].steps) + 1
        /\ SubSeq(after, 1, Len(after) - 1) = activeChains[c].steps
        /\ after[Len(after)].type = "conclusion"
        /\ after[Len(after)].content = DecisionMadeWords \o options[1].description

\* C25 as stated: the options of a returned decision point are in
\* non-increasing order of scores in [0,1], and makeDecision with it selects
\* the option at index 0 and appends a conclusion step recording it
C25_Original ==
    [][/\ DecisionPointReturned => RankedOptions(lastCall'.returned.options)
       /\ DecisionOnExistingChain => FirstOptionSelected]_vars

\* C25: the options of the decision point createDecisionPoint returns are in
\* non-increasing order of feasibility score and each score is in [0,1];
\* makeDecision with a decision point that has at least one option, for a
\* chain that exists, with or without a rationale, selects the option at index
\* 0 and appends a conclusion step recording it; with a decision point without
\* options it throws a TypeError and appends nothing
C25_RankedAndFirstSelected ==
    [][/\ DecisionPointReturned => RankedOptions(lastCall'.returned.options)
       /\ DecisionOnExistingChain =>
             IF Len(lastCall'.decisionPoint.options) > 0
             THEN FirstOptionSelected
             ELSE lastCall'.threw = "type-error" /\ UNCHANGED activeChains]_vars

\* makeDecision, without a rationale, has selected the first of three options
\* whose scores differ
C25_Witness ==
    /\ lastCall.op = "makeDecision"
    /\ lastCall.threw = "none"
    /\ Len(lastCall.decisionPoint.options) = 3
    /\ lastCall.decisionPoint.options[1].feasibilityScore
          > lastCall.decisionPoint.options[3].feasibilityScore
    /\ lastCall.decisionPoint.rationale = DefaultRationaleWords
    /\ lastCall.returned = lastCall.decisionPoint.options[1]

----------------------------------------------------------------------------
(* Properties of the score and of the gate of validateResponse *)

C30_Original ==
    (ResponseValidated /\ lastCall.result.allowExecution) => lastCall.result.isValid

\* C30: whenever validateResponse returns allowExecution = true there is no
\* critical issue, no unsafe_operation issue if safety checks are on, and the
\* score is at least 0.6; isValid is true exactly when there is no critical
\* and no high issue, so a response with high issues only can be allowed to
\* execute while isValid is false
C30_AllowedWithoutCritical ==
    ResponseValidated =>
        /\ lastCall.result.isValid
              <=> (IssuesWithSeverity("critical") = {} /\ IssuesWithSeverity("high") = {})
        /\ lastCall.result.allowExecution =>
              /\ IssuesWithSeverity("critical") = {}
              /\ lastCall.constraints.safetyChecks => IssuesWithType("unsafe_operation") = {}
              /\ lastCall.result.score >= 60
              /\ ~lastCall.result.isValid => IssuesWithSeverity("high") # {}

\* a response whose content names a forbidden operation is allowed to execute
C30_Witness ==
    /\ ResponseValidated
    /\ lastCall.result.allowExecution
    /\ ~lastCall.result.isValid
    /\ IssuesWithType("constraint_violation") # {}

----------------------------------------------------------------------------
(* Properties of validateChain *)

\* the last call was a validateChain that returned
ChainValidated == lastCall.op = "validateChain" /\ lastCall.threw = "none"

PairwiseDissimilar(steps) ==
    \A i, j \in 1..Len(steps) :
        i # j => ~SimilarityAbove80(calculateSimilarity(steps[i].content,
                                                        steps[j].content))

\* a chain of at least three steps, one of them a conclusion, whose steps
\* were all validated when they were added and differ from one another
SoundChain(chain) ==
    /\ Len(chain.steps) >= MinChainSteps
    /\ \E k \in 1..Len(chain.steps) : chain.steps[k].type = "conclusion"
    /\ \A k \in 1..Len(chain.steps) : chain.steps[k].validationStatus = "validated"
    /\ PairwiseDissimilar(chain.steps)

\* C31 as stated: for a chain of at least 3 steps with a conclusion, whose
\* steps were all validated when added and are pairwise dissimilar, and with
\* the registry unchanged, validateChain returns isValid = true and no high
\* or critical issue
C31_Original ==
    (ChainValidated /\ SoundChain(activeChains[lastCall.chainId])) =>
        /\ lastCall.returned.isValid
        /\ \A k \in 1..Len(lastCall.returned.issues) :
              lastCall.returned.issues[k].severity \notin {"critical", "high"}

----------------------------------------------------------------------------
(* Properties of the life of a chain *)

FreezingOps == {"pauseChain", "resumeChain", "addReasoningStep",
                "createDecisionPoint", "makeDecision", "completeReasoning"}

\* this step is a call of one of the operations on a chain that
\* completeReasoning has completed
CallOnCompletedChain(c) ==
    /\ lastCall' # lastCall \/ activeChains' # activeChains
    /\ lastCall'.op \in FreezingOps
    /\ lastCall'.chainId = c
    /\ activeChains[c] # NoChain
    /\ activeChains[c].status = "completed"

\* C32 as stated: once completeReasoning has set the status of a chain to
\* completed, no later pauseChain, resumeChain, addReasoningStep,
\* createDecisionPoint, makeDecision or completeReasoning changes its status
\* or its list of steps
C32_Original ==
    [][\A c \in ChainIds :
          CallOnCompletedChain(c) =>
              /\ activeChains'[c].status = "completed"
              /\ activeChains'[c].steps = activeChains[c].steps]_vars

\* the step at position i (from 0) has the id step-i, and position 0 holds the
\* seed: an observation of confidence 0.9 that is validated
WellNumbered(chain) ==
    /\ Len(chain.steps) >= 1
    /\ \A k \in 1..Len(chain.steps) : chain.steps[k].id = k - 1
    /\ chain.steps[1].type = "observation"
    /\ chain.steps[1].confidence = 90
    /\ chain.steps[1].validationStatus = "validated"
    /\ chain.steps[1].content = StartingWords \o chain.goal

\* the steps the chain held are still there, at their positions and unchanged
StepsKept(before, after) ==
    /\ Len(after) >= Len(before)
    /\ SubSeq(after, 1, Len(before)) = before

----------------------------------------------------------------------------
(* Properties of executePlan when a tool has gone missing *)

\* this step is the loop iteration of executePlan for a step whose
\* dependencies are satisfied and one of whose required tools is missing from
\* the registry of the execution context
ReachesStepWithMissingTool ==
    /\ pc = "loop"
    /\ cursor' = cursor + 1
    /\ DepsSatisfied(sortedSteps[cursor], results)
    /\ \E k \in 1..Len(sortedSteps[cursor].requiredTools) :
          ~GetTool(registry, sortedSteps[cursor].requiredTools[k])

DepsNotSatisfiedErrors == << "Dependencies not satisfied" >>

\* the result at position k is the failure executeStep returns from its check
\* of the required tools
MissingToolFailure(k) ==
    /\ k <= Len(results)
    /\ ~results[k].success
    /\ results[k].errors \notin {<< >>, << "threw" >>, DepsNotSatisfiedErrors}

\* step b names step a among its dependencies
DependsOn(b, a) == sortedSteps[a].id \in Range(sortedSteps[b].dependencies)

\* executeStep leaves at its tool check, or at its catch block, before the
\* body of the step is dispatched: a failure with confidence 0 and no tool used
FailedBeforeBody ==
    LET stepResult == results'[Len(results')]
    IN  /\ Len(results') = Len(results) + 1
        /\ stepResult.stepId = sortedSteps[cursor].id
        /\ ~stepResult.success
        /\ stepResult.confidence = 0
        /\ stepResult.toolsUsed = << >>
        /\ stepResult.errors # << >>

----------------------------------------------------------------------------
(* Properties of processMessage, checked under SpecSessionsFair *)

\* a step of a processMessage call: its beginning, or the rest of an attempt
MessageStep ==
    \/ \E sessionId \in SessionIds : ProcessHeld(sessionId)
    \/ \E outcome \in AttemptOutcomes : ProcessAttempt(outcome)

\* the step is the one in which a processMessage call returns a response
MessageReturns ==
    /\ MessageStep
    /\ msgCall' = NoMsgCall
    /\ lastCall'.op = "processMessage"
    /\ lastCall'.threw = "none"

\* the call that waits has made at most maxRetries attempts
AttemptsWithinRetries ==
    msgCall # NoMsgCall => msgCall.attempt <= msgCall.options.maxRetries

\* the step of a call that returns appends one response to its session, after
\* at most maxRetries attempts, and after exactly maxRetries if the response
\* is not successful; every other step of a call appends nothing
OneResponsePerCall ==
    MessageStep =>
        IF MessageReturns
        THEN LET sessionId == lastCall'.sessionId
             IN  /\ lastCall'.attempts <= lastCall'.maxRetries
                 /\ Len(sessionObjects'[sessionId].responses)
                      = Len(sessionObjects[sessionId].responses) + 1
                 /\ SubSeq(sessionObjects'[sessionId].responses, 1,
                           Len(sessionObjects[sessionId].responses))
                      = sessionObjects[sessionId].responses
                 /\ sessionObjects'[sessionId].responses[
                        Len(sessionObjects'[sessionId].responses)].successful
                      = lastCall'.successful
                 /\ ~lastCall'.successful =>
                        lastCall'.attempts = lastCall'.maxRetries
                 /\ \A other \in SessionIds \ {sessionId} :
                        sessionObjects'[other] = sessionObjects[other]
        ELSE sessionObjects' = sessionObjects

\* C35: every processMessage call on an existing session returns after at
\* most maxRetries attempts and appends exactly one response to the session;
\* a response that is not successful is recorded only when maxRetries
\* attempts have been made.
C35_ProcessMessageTerminates ==
    /\ []AttemptsWithinRetries
    /\ [][OneResponsePerCall]_vars
    /\ (msgCall # NoMsgCall) ~> (msgCall = NoMsgCall)

\* a call with maxRetries = 3 has returned the response of its third attempt,
\* which validation did not allow to execute
C35_Witness ==
    /\ lastCall.op = "processMessage"
    /\ lastCall.threw = "none"
    /\ lastCall.maxRetries = DefaultMaxRetries
    /\ lastCall.attempts = DefaultMaxRetries
    /\ ~lastCall.successful
    /\ ~lastCall.failed
    /\ Len(sessionObjects[lastCall.sessionId].responses) = 1

----------------------------------------------------------------------------
(* Properties of completeSession, checked under SpecSessions *)

\* no session id is a key of the map and an entry of the history
NeverActiveAndInHistory == activeSessions \cap Range(sessionHistory) = {}

\* the ids of the history are pairwise different
HistoryWithoutRepeats ==
    \A i, j \in 1..Len(sessionHistory) :
        sessionHistory[i] = sessionHistory[j] => i = j

\* when completeSession returns the session, it is the newest entry of the
\* history, its status is completed, and getSession gives undefined
CompletedMovesToHistory ==
    \A sessionId \in activeSessions :
        CompleteSession(sessionId) =>
            /\ sessionId \notin activeSessions'
            /\ sessionHistory' = Append(sessionHistory, sessionId)
            /\ sessionObjects'[sessionId].status = "completed"
            /\ getSession(activeSessions', sessionId) = 0
            /\ getSessionHistory(sessionHistory', sessionObjects')[
                   Len(sessionHistory')].status = "completed"

\* a processMessage or completeSession call with the id of a session of the
\* history throws not-found and leaves the sessions as they are
LaterCallsNotFound ==
    \A sessionId \in Range(sessionHistory) :
        (ProcessHeld(sessionId) \/ CompleteSession(sessionId)) =>
            /\ lastCall'.threw = "not-found"
            /\ sessionObjects' = sessionObjects
            /\ activeSessions' = activeSessions
            /\ sessionHistory' = sessionHistory

\* every session of the history has the status completed
HistoryStaysCompleted ==
    \A k \in 1..Len(sessionHistory) :
        sessionObjects[sessionHistory[k]].status = "completed"

\* a session of the history is completed, or failed by a call that was
\* waiting when it was completed
HistoryCompletedOrFailed ==
    \A k \in 1..Len(sessionHistory) :
        sessionObjects[sessionHistory[k]].status \in {"completed", "failed"}

\* a session of the history is changed only by the rest of the processMessage
\* call that is waiting for a response for it
HistoryChangedByWaitingCallOnly ==
    \A sessionId \in Range(sessionHistory) :
        sessionObjects'[sessionId] # sessionObjects[sessionId] =>
            /\ msgCall # NoMsgCall
            /\ msgCall.sessionId = sessionId
            /\ \E outcome \in AttemptOutcomes : ProcessAttempt(outcome)

----------------------------------------------------------------------------
(* Properties of startSession, checked under SpecStart *)

\* C37: if startSession throws (critical tool health, or createPlan rejecting
\* the plan because a required tool is missing), no session for that call
\* remains in the map: getActiveSessions is the same as before the call.
C37_Original ==
    [][(StartHeld /\ lastCall'.threw # "none") =>
          getActiveSessions(activeSessions', sessionObjects')
            = getActiveSessions(activeSessions, sessionObjects)]_vars

----------------------------------------------------------------------------
(* Properties of the verification cache, checked under SpecVerifier *)

\* C38: verifyTool returns a cached result only while the result is younger
\* than the time to live of 5 minutes; a call made later verifies the tool
\* against the registry again, so a tool that was removed in the meantime
\* is reported unavailable.
C38_Original ==
    lastCall.op = "verifyTool" =>
        /\ lastCall.hit =>
              lastCall.at - lastCall.result.cachedAt <= CACHE_TTL_MS
        /\ ~lastCall.hit =>
              /\ lastCall.result.cachedAt = lastCall.at
              /\ lastCall.result.available = lastCall.registered

====
